---------------------------- MODULE Spec2Model ----------------------------
(***************************************************************************)
(* A model of the collection reconciliation engine of                      *)
(* xwingtmg2-inventory-rs: expansions::Catalog::load, the yasb2 name       *)
(* resolver (to_canonical, to_xws), yasb2::Collection::to_xws_collection   *)
(* and Collection::inventory.                                              *)
(*                                                                         *)
(* Text is modelled as sequences of one-character strings so that the      *)
(* character-level conversions are computed rather than assumed.  A        *)
(* character outside ASCII is written as its code point, e.g. "U+00C9".    *)
(***************************************************************************)
EXTENDS Integers, Sequences, FiniteSets, TLC

-----------------------------------------------------------------------------
(* Bounds of the model *)

\* Longest expansion list handed to Catalog::load.
MaxList == 3

\* Largest owned count in a Collection (skus and singles).
MaxCount == 2

\* Most entries (expansions and singletons together) in a yasb declaration.
MaxDecl == 2

-----------------------------------------------------------------------------
(* Characters *)

UpperSeq == <<"A","B","C","D","E","F","G","H","I","J","K","L","M",
              "N","O","P","Q","R","S","T","U","V","W","X","Y","Z">>

LowerSeq == <<"a","b","c","d","e","f","g","h","i","j","k","l","m",
              "n","o","p","q","r","s","t","u","v","w","x","y","z">>

AsciiUpper == { UpperSeq[i] : i \in DOMAIN UpperSeq }

AsciiLower == { LowerSeq[i] : i \in DOMAIN LowerSeq }

AsciiDigit == {"0","1","2","3","4","5","6","7","8","9"}

\* Alphabetic characters outside ASCII that the model uses
\* (LATIN CAPITAL/SMALL LETTER E WITH ACUTE).
NonAsciiAlpha == {"U+00C9", "U+00E9"}

\* char::is_alphanumeric
IsAlphanumeric(c) ==
    c \in AsciiUpper \cup AsciiLower \cup AsciiDigit \cup NonAsciiAlpha

\* char::to_ascii_lowercase: only 'A'..='Z' are changed.
ToAsciiLowercase(c) ==
    IF c \in AsciiUpper
    THEN LowerSeq[CHOOSE i \in DOMAIN UpperSeq : UpperSeq[i] = c]
    ELSE c

-----------------------------------------------------------------------------
(* yasb2: name resolution *)

\* As to_canonical, lowercasing with char::to_lowercase: the capital letter
\* outside ASCII is lowercased too.
RECURSIVE to_canonical_to_lowercase(_)
to_canonical_to_lowercase(name) ==
    IF name = <<>> THEN <<>>
    ELSE LET c == Head(name)
             rest == to_canonical_to_lowercase(Tail(name))
         IN  IF ~(IsAlphanumeric(c) \/ c = "(") THEN rest
             ELSE IF c = "(" THEN <<"-">> \o rest
             ELSE IF c = "U+00C9" THEN <<"U+00E9">> \o rest
             ELSE <<ToAsciiLowercase(c)>> \o rest

\* As to_canonical, with a filter that also lets '-' through.
RECURSIVE to_canonical_keeps_dash(_)
to_canonical_keeps_dash(name) ==
    IF name = <<>> THEN <<>>
    ELSE LET c == Head(name)
             rest == to_canonical_keeps_dash(Tail(name))
         IN  IF ~(IsAlphanumeric(c) \/ c = "(" \/ c = "-") THEN rest
             ELSE IF c = "(" THEN <<"-">> \o rest
             ELSE <<ToAsciiLowercase(c)>> \o rest

\* to_canonical: keep alphanumerics and '(', turn '(' into '-', lowercase
\* (ASCII) everything else.
RECURSIVE to_canonical(_)
to_canonical(name) ==
    IF name = <<>> THEN <<>>
    ELSE LET c == Head(name)
             rest == to_canonical(Tail(name))
         IN  IF ~(IsAlphanumeric(c) \/ c = "(") THEN rest
             ELSE IF c = "(" THEN <<"-">> \o rest
             ELSE <<ToAsciiLowercase(c)>> \o rest

\* to_xws, ItemType::Pilot arm: canonical name -> xws id (pairs <<from, to>>).
PilotOverrides ==
    { <<<<"a", "d", "i", "g", "a", "l", "l", "i", "a", "-", "d", "e", "l", "t", "a", "7", "b">>,
       <<"a", "d", "i", "g", "a", "l", "l", "i", "a", "-", "d", "e", "l", "t", "a", "7", "b", "a", "e", "t", "h", "e", "r", "s", "p", "r", "i", "t", "e">>>>,
      <<<<"a", "h", "s", "o", "k", "a", "t", "a", "n", "o", "-", "a", "w", "i", "n", "g">>,
       <<"a", "h", "s", "o", "k", "a", "t", "a", "n", "o", "-", "r", "z", "1", "a", "w", "i", "n", "g">>>>,
      <<<<"b", "l", "a", "c", "k", "s", "q", "u", "a", "d", "r", "o", "n", "a", "c", "e", "-", "t", "7", "0">>,
       <<"b", "l", "a", "c", "k", "s", "q", "u", "a", "d", "r", "o", "n", "a", "c", "e", "-", "t", "7", "0", "x", "w", "i", "n", "g">>>>,
      <<<<"b", "o", "s", "s", "k", "-", "z", "9", "5", "h", "e", "a", "d", "h", "u", "n", "t", "e", "r">>,
       <<"b", "o", "s", "s", "k", "-", "z", "9", "5", "a", "f", "4", "h", "e", "a", "d", "h", "u", "n", "t", "e", "r">>>>,
      <<<<"c", "h", "e", "w", "b", "a", "c", "c", "a", "-", "r", "e", "s", "i", "s", "t", "a", "n", "c", "e">>,
       <<"c", "h", "e", "w", "b", "a", "c", "c", "a", "-", "s", "c", "a", "v", "e", "n", "g", "e", "d", "y", "t", "1", "3", "0", "0">>>>,
      <<<<"c", "o", "r", "r", "a", "n", "h", "o", "r", "n", "-", "x", "w", "i", "n", "g">>,
       <<"c", "o", "r", "r", "a", "n", "h", "o", "r", "n", "-", "t", "6", "5", "x", "w", "i", "n", "g">>>>,
      <<<<"d", "a", "l", "a", "n", "o", "b", "e", "r", "o", "s", "-", "s", "t", "a", "r", "v", "i", "p", "e", "r">>,
       <<"d", "a", "l", "a", "n", "o", "b", "e", "r", "o", "s", "-", "s", "t", "a", "r", "v", "i", "p", "e", "r", "c", "l", "a", "s", "s", "a", "t", "t", "a", "c", "k", "p", "l", "a", "t", "f", "o", "r", "m">>>>,
      <<<<"d", "a", "r", "t", "h", "v", "a", "d", "e", "r", "-", "t", "i", "e", "d", "e", "f", "e", "n", "d", "e", "r">>,
       <<"d", "a", "r", "t", "h", "v", "a", "d", "e", "r", "-", "t", "i", "e", "d", "d", "e", "f", "e", "n", "d", "e", "r">>>>,
      <<<<"d", "u", "r", "g", "e", "-", "s", "e", "p", "a", "r", "a", "t", "i", "s", "t">>,
       <<"d", "u", "r", "g", "e", "-", "s", "e", "p", "a", "r", "a", "t", "i", "s", "t", "a", "l", "l", "i", "a", "n", "c", "e">>>>,
      <<<<"e", "z", "r", "a", "b", "r", "i", "d", "g", "e", "r", "-", "s", "h", "e", "a", "t", "h", "i", "p", "e", "d", "e">>,
       <<"e", "z", "r", "a", "b", "r", "i", "d", "g", "e", "r", "-", "s", "h", "e", "a", "t", "h", "i", "p", "e", "d", "e", "c", "l", "a", "s", "s", "s", "h", "u", "t", "t", "l", "e">>>>,
      <<<<"e", "z", "r", "a", "b", "r", "i", "d", "g", "e", "r", "-", "t", "i", "e", "f", "i", "g", "h", "t", "e", "r">>,
       <<"e", "z", "r", "a", "b", "r", "i", "d", "g", "e", "r", "-", "t", "i", "e", "l", "n", "f", "i", "g", "h", "t", "e", "r">>>>,
      <<<<"f", "e", "n", "n", "r", "a", "u", "-", "s", "h", "e", "a", "t", "h", "i", "p", "e", "d", "e">>,
       <<"f", "e", "n", "n", "r", "a", "u", "-", "s", "h", "e", "a", "t", "h", "i", "p", "e", "d", "e", "c", "l", "a", "s", "s", "s", "h", "u", "t", "t", "l", "e">>>>,
      <<<<"g", "a", "r", "v", "e", "n", "d", "r", "e", "i", "s", "-", "x", "w", "i", "n", "g">>,
       <<"g", "a", "r", "v", "e", "n", "d", "r", "e", "i", "s", "-", "t", "6", "5", "x", "w", "i", "n", "g">>>>,
      <<<<"g", "i", "d", "e", "o", "n", "h", "a", "s", "k", "-", "t", "i", "e", "i", "n", "t", "e", "r", "c", "e", "p", "t", "o", "r">>,
       <<"g", "i", "d", "e", "o", "n", "h", "a", "s", "k", "-", "t", "i", "e", "i", "n", "i", "n", "t", "e", "r", "c", "e", "p", "t", "o", "r">>>>,
      <<<<"h", "a", "n", "s", "o", "l", "o", "-", "r", "e", "s", "i", "s", "t", "a", "n", "c", "e">>,
       <<"h", "a", "n", "s", "o", "l", "o", "-", "s", "c", "a", "v", "e", "n", "g", "e", "d", "y", "t", "1", "3", "0", "0">>>>,
      <<<<"h", "e", "r", "a", "s", "y", "n", "d", "u", "l", "l", "a", "-", "a", "w", "i", "n", "g">>,
       <<"h", "e", "r", "a", "s", "y", "n", "d", "u", "l", "l", "a", "-", "r", "z", "1", "a", "w", "i", "n", "g">>>>,
      <<<<"h", "e", "r", "a", "s", "y", "n", "d", "u", "l", "l", "a", "-", "b", "w", "i", "n", "g">>,
       <<"h", "e", "r", "a", "s", "y", "n", "d", "u", "l", "l", "a", "-", "a", "s", "f", "0", "1", "b", "w", "i", "n", "g">>>>,
      <<<<"h", "e", "r", "a", "s", "y", "n", "d", "u", "l", "l", "a", "-", "v", "c", "x", "1", "0", "0">>,
       <<"h", "e", "r", "a", "s", "y", "n", "d", "u", "l", "l", "a", "-", "v", "c", "x", "1", "0", "0", "l", "i", "g", "h", "t", "f", "r", "e", "i", "g", "h", "t", "e", "r">>>>,
      <<<<"l", "a", "n", "d", "o", "c", "a", "l", "r", "i", "s", "s", "i", "a", "n", "-", "r", "e", "s", "i", "s", "t", "a", "n", "c", "e">>,
       <<"l", "a", "n", "d", "o", "c", "a", "l", "r", "i", "s", "s", "i", "a", "n", "-", "s", "c", "a", "v", "e", "n", "g", "e", "d", "y", "t", "1", "3", "0", "0">>>>,
      <<<<"n", "o", "r", "r", "a", "w", "e", "x", "l", "e", "y", "-", "y", "w", "i", "n", "g">>,
       <<"n", "o", "r", "r", "a", "w", "e", "x", "l", "e", "y", "-", "b", "t", "l", "a", "4", "y", "w", "i", "n", "g">>>>,
      <<<<"p", "o", "e", "d", "a", "m", "e", "r", "o", "n", "-", "y", "t", "1", "3", "0", "0">>,
       <<"p", "o", "e", "d", "a", "m", "e", "r", "o", "n", "-", "s", "c", "a", "v", "e", "n", "g", "e", "d", "y", "t", "1", "3", "0", "0">>>>,
      <<<<"s", "a", "b", "i", "n", "e", "w", "r", "e", "n", "-", "a", "w", "i", "n", "g">>,
       <<"s", "a", "b", "i", "n", "e", "w", "r", "e", "n", "-", "r", "z", "1", "a", "w", "i", "n", "g">>>>,
      <<<<"s", "a", "b", "i", "n", "e", "w", "r", "e", "n", "-", "s", "c", "u", "m">>,
       <<"s", "a", "b", "i", "n", "e", "w", "r", "e", "n", "-", "l", "a", "n", "c", "e", "r", "c", "l", "a", "s", "s", "p", "u", "r", "s", "u", "i", "t", "c", "r", "a", "f", "t">>>>,
      <<<<"s", "a", "b", "i", "n", "e", "w", "r", "e", "n", "-", "t", "i", "e", "f", "i", "g", "h", "t", "e", "r">>,
       <<"s", "a", "b", "i", "n", "e", "w", "r", "e", "n", "-", "t", "i", "e", "l", "n", "f", "i", "g", "h", "t", "e", "r">>>>,
      <<<<"s", "h", "a", "r", "a", "b", "e", "y", "-", "a", "w", "i", "n", "g">>,
       <<"s", "h", "a", "r", "a", "b", "e", "y", "-", "r", "z", "1", "a", "w", "i", "n", "g">>>>,
      <<<<"v", "u", "l", "t", "s", "k", "e", "r", "r", "i", "s", "-", "t", "i", "e", "i", "n", "t", "e", "r", "c", "e", "p", "t", "o", "r">>,
       <<"v", "u", "l", "t", "s", "k", "e", "r", "r", "i", "s", "-", "t", "i", "e", "i", "n", "i", "n", "t", "e", "r", "c", "e", "p", "t", "o", "r">>>>,
      <<<<"w", "e", "d", "g", "e", "a", "n", "t", "i", "l", "l", "e", "s", "-", "a", "w", "i", "n", "g">>,
       <<"w", "e", "d", "g", "e", "a", "n", "t", "i", "l", "l", "e", "s", "-", "r", "z", "1", "a", "w", "i", "n", "g">>>>,
      <<<<"z", "e", "b", "o", "r", "r", "e", "l", "i", "o", "s", "-", "s", "h", "e", "a", "t", "h", "i", "p", "e", "d", "e">>,
       <<"z", "e", "b", "o", "r", "r", "e", "l", "i", "o", "s", "-", "s", "h", "e", "a", "t", "h", "i", "p", "e", "d", "e", "c", "l", "a", "s", "s", "s", "h", "u", "t", "t", "l", "e">>>>,
      <<<<"z", "e", "b", "o", "r", "r", "e", "l", "i", "o", "s", "-", "t", "i", "e", "f", "i", "g", "h", "t", "e", "r">>,
       <<"z", "e", "b", "o", "r", "r", "e", "l", "i", "o", "s", "-", "t", "i", "e", "l", "n", "f", "i", "g", "h", "t", "e", "r">>>> }

\* to_xws, ItemType::Upgrade arm.
UpgradeOverrides ==
    { <<<<"b", "6", "b", "l", "a", "d", "e", "w", "i", "n", "g", "p", "r", "o", "t", "o", "t", "y", "p", "e", "-", "e", "p", "i", "c">>,
       <<"b", "6", "b", "l", "a", "d", "e", "w", "i", "n", "g", "p", "r", "o", "t", "o", "t", "y", "p", "e", "-", "c", "o", "m", "m", "a", "n", "d">>>>,
      <<<<"c", "3", "p", "o", "-", "r", "e", "s", "i", "s", "t", "a", "n", "c", "e">>,
       <<"c", "3", "p", "o", "-", "c", "r", "e", "w">>>>,
      <<<<"c", "h", "e", "w", "b", "a", "c", "c", "a", "-", "r", "e", "s", "i", "s", "t", "a", "n", "c", "e">>,
       <<"c", "h", "e", "w", "b", "a", "c", "c", "a", "-", "c", "r", "e", "w">>>>,
      <<<<"c", "h", "o", "p", "p", "e", "r", "-", "a", "s", "t", "r", "o", "m", "e", "c", "h">>,
       <<"c", "h", "o", "p", "p", "e", "r">>>>,
      <<<<"h", "a", "n", "s", "o", "l", "o", "-", "r", "e", "s", "i", "s", "t", "a", "n", "c", "e">>,
       <<"h", "a", "n", "s", "o", "l", "o", "-", "c", "r", "e", "w">>>>,
      <<<<"r", "e", "y">>,
       <<"r", "e", "y", "-", "g", "u", "n", "n", "e", "r">>>>,
      <<<<"v", "e", "c", "t", "o", "r", "e", "d", "c", "a", "n", "n", "o", "n", "s", "-", "r", "z", "1">>,
       <<"v", "e", "c", "t", "o", "r", "e", "d", "c", "a", "n", "n", "o", "n", "s", "r", "z", "1">>>> }

\* A match arm list: the first pair whose pattern equals xws, else xws itself
\* (the arm `x => x`).
MatchOverride(table, xws) ==
    IF \E p \in table : p[1] = xws
    THEN (CHOOSE p \in table : p[1] = xws)[2]
    ELSE xws

\* expansions::ItemType
ItemType == {"Ship", "Obstacle", "Pilot", "Upgrade", "Damage"}

\* As to_xws, with the Pilot arm's table applied whatever the type.
to_xws_any_type(name, typ) ==
    MatchOverride(PilotOverrides, to_canonical(name))

\* to_xws: canonicalise, then the per-type special cases.  The Ship arm only
\* holds a commented-out table, so Ship and every other type fall through.
to_xws(name, typ) ==
    LET xws == to_canonical(name)
    IN  CASE typ = "Pilot"   -> MatchOverride(PilotOverrides, xws)
          [] typ = "Upgrade" -> MatchOverride(UpgradeOverrides, xws)
          [] typ = "Ship"    -> xws
          [] OTHER           -> xws

-----------------------------------------------------------------------------
(* Strings as ordered keys *)

\* Byte order of the ASCII characters the model uses; String's Ord compares
\* bytes, and every character outside ASCII sorts after all of ASCII.
AsciiOrder == <<" ", "(", ")", "+", "-", "/">> \o
              <<"0","1","2","3","4","5","6","7","8","9">> \o UpperSeq \o LowerSeq

CharRank(c) ==
    IF \E i \in DOMAIN AsciiOrder : AsciiOrder[i] = c
    THEN CHOOSE i \in DOMAIN AsciiOrder : AsciiOrder[i] = c
    ELSE IF c = "U+00C9" THEN Len(AsciiOrder) + 1
    ELSE Len(AsciiOrder) + 2

\* a < b for Strings (lexicographic, a proper prefix is smaller).
RECURSIVE StrLess(_, _)
StrLess(a, b) ==
    IF b = <<>> THEN FALSE
    ELSE IF a = <<>> THEN TRUE
    ELSE IF Head(a) = Head(b) THEN StrLess(Tail(a), Tail(b))
    ELSE CharRank(Head(a)) < CharRank(Head(b))

\* The keys of a BTreeMap<String, _> in iteration order.
RECURSIVE SortedKeys(_)
SortedKeys(S) ==
    IF S = {} THEN <<>>
    ELSE LET m == CHOOSE x \in S : \A y \in S \ {x} : StrLess(x, y)
         IN  <<m>> \o SortedKeys(S \ {m})

-----------------------------------------------------------------------------
(* Maps *)

EmptyMap == <<>>

MapInsert(m, k, v) == [x \in (DOMAIN m) \cup {k} |-> IF x = k THEN v ELSE m[x]]

\* m.get(k).unwrap_or(d)
GetOr(m, k, d) == IF k \in DOMAIN m THEN m[k] ELSE d

Range(s) == { s[i] : i \in DOMAIN s }

\* All sequences over S of length at most n.
SeqsUpTo(S, n) == UNION { [1..k -> S] : k \in 0..n }

\* All maps from at most n keys of K to values in V.
MapsUpTo(K, V, n) ==
    UNION { [D -> V] : D \in { D \in SUBSET K : Cardinality(D) <= n } }

-----------------------------------------------------------------------------
(* expansions: items, expansions and the catalog *)

Item(typ, xws) == [type |-> typ, xws |-> xws]

ItemCount(item, count) == [item |-> item, count |-> count]

Expansion(sku, name, wave, contents) ==
    [sku |-> sku, name |-> name, wave |-> wave, contents |-> contents]

\* xws ids
XwsHanSolo   == <<"h","a","n","s","o","l","o">>
XwsRey       == <<"r","e","y">>
XwsReyGunner == <<"r","e","y","-","g","u","n","n","e","r">>
XwsXWing     == <<"x","w","i","n","g">>

ShipXWing     == Item("Ship", XwsXWing)
PilotHanSolo  == Item("Pilot", XwsHanSolo)
UpgradeHanSolo == Item("Upgrade", XwsHanSolo)
UpgradeRey    == Item("Upgrade", XwsReyGunner)
PilotRey      == Item("Pilot", XwsRey)

\* SKUs
SkuCore   == <<"s","w","z","0","1">>
SkuT70    == <<"s","w","z","2","5">>
SkuLegacy == <<"s","w","x","5","5">>

\* Expansion display names
NameCore    == <<"C","o","r","e">>
NameT70     == <<"T","-","7","0">>
NameT70Low  == <<"t","-","7","0">>
NameLegacy  == <<"X","-","W","i","n","g">>

\* Contents lists occurring in expansion files: four distinct items once
\* each, two items shared with the first list, one item listed twice, nothing.
ContentsFour == << ItemCount(ShipXWing, 1), ItemCount(PilotHanSolo, 1),
                   ItemCount(UpgradeRey, 1), ItemCount(UpgradeHanSolo, 1) >>

ContentsPair == << ItemCount(ShipXWing, 2), ItemCount(PilotHanSolo, 1) >>

ContentsTwice == << ItemCount(UpgradeHanSolo, 1), ItemCount(UpgradeHanSolo, 2) >>

ContentsNone == << >>

\* name, wave and contents of the products an expansion file may list
Products ==
    { <<NameT70, 1, ContentsFour>>, <<NameCore, 0, ContentsPair>>,
      <<NameLegacy, 1, ContentsTwice>>, <<NameT70Low, 2, ContentsNone>> }

CatalogSkus == {SkuCore, SkuT70}

RawExpansions ==
    { Expansion(s, p[1], p[2], p[3]) : s \in CatalogSkus, p \in Products }

\* Some sku occurs twice in the list.
RepeatsSku(l) == \E i, j \in DOMAIN l : i < j /\ l[i].sku = l[j].sku

\* Every Item named by some product.
AllItems == UNION { { p[3][i].item : i \in DOMAIN p[3] } : p \in Products }

\* Catalog { ..Default::default() }
EmptyCatalog == [expansions |-> EmptyMap, sources |-> EmptyMap]

\* As AddSources, but an item already present keeps only its first source.
RECURSIVE AddSourcesFirstOnly(_, _, _)
AddSourcesFirstOnly(sources, sku, contents) ==
    IF contents = <<>> THEN sources
    ELSE LET c == Head(contents)
             s == ItemCount(Item(c.item.type, sku), c.count)
             next == IF c.item \in DOMAIN sources
                     THEN sources
                     ELSE MapInsert(sources, c.item, <<s>>)
         IN  AddSourcesFirstOnly(next, sku, Tail(contents))

\* The inner loop of Catalog::load: one source entry per content entry,
\* pushed onto the item's list (created on first use).  The entry reuses
\* ItemCount, with the expansion's sku in the place of the xws id.
RECURSIVE AddSources(_, _, _)
AddSources(sources, sku, contents) ==
    IF contents = <<>> THEN sources
    ELSE LET c == Head(contents)
             s == ItemCount(Item(c.item.type, sku), c.count)
             next == IF c.item \in DOMAIN sources
                     THEN MapInsert(sources, c.item, Append(sources[c.item], s))
                     ELSE MapInsert(sources, c.item, <<s>>)
         IN  AddSources(next, sku, Tail(contents))

\* A load that never notices a repeated sku.
InsertNeverReplaces(expansions, sku) == FALSE

\* BTreeMap::insert(..).is_some(): whether the key was already present.
InsertReplaces(expansions, sku) == sku \in DOMAIN expansions

\* Catalog::has_item
has_item(catalog, item) ==
    \E sku \in DOMAIN catalog.expansions :
        \E i \in DOMAIN catalog.expansions[sku].contents :
            catalog.expansions[sku].contents[i].item = item

-----------------------------------------------------------------------------
(* State *)

VARIABLES
    \* Catalog::load
    file,               \* the expansion file: a list of expansions, or Unreadable
    list,               \* the part of the parsed list not yet drained
    catalog,            \* the catalog under construction
    load_pc,            \* "read", "drain" or "done"
    load_result,        \* what load returned
    \* Collection::inventory
    inv_catalog,        \* the catalog argument
    collection,         \* self: [skus, singles]
    skus_iter,          \* the keys `for (sku, c) in &self.skus` has yet to visit
    inventory,          \* the local inventory
    inv_missing,        \* the local missing_expansions
    inv_pc,             \* "call", "loop" or "done"
    \* yasb2::Collection::to_xws_collection
    yasb_expansions,    \* the expansions argument
    yasb,               \* self: the declaration [expansions, singletons]
    yasb_pc,            \* the loop being run, "return" or "done"
    yasb_iter,          \* the entries the running loop has yet to visit
    item_counts,
    missing_singles,
    missing_expansions,
    printed,            \* the names written by println!
    visited,            \* the entries visited so far, in iteration order
    xws_collection,     \* the XwsCollection returned
    \* yasb2::to_canonical and yasb2::to_xws
    xws_name,           \* the name argument
    xws_typ,            \* the typ argument
    xws_canon,          \* what to_canonical(name) returned
    xws_out,            \* what to_xws(name, typ) returned
    xws_pc,             \* "call", "canonical" or "done"
    \* Records::build
    rec_inventory,      \* the inventory argument
    rec_data,           \* the xwingdata2 Data argument
    rec_catalog,        \* the catalog argument
    rec_iter,           \* the inventory entries yet to visit
    records,            \* the Records under construction
    rec_printed,        \* the lines written by println!
    rec_pc,             \* "call", "loop" or "done"
    \* format_restriction
    fr_data,            \* the data argument
    fr_restrictions,    \* the restrictions argument
    fr_kind,            \* the kind argument
    fr_next,            \* the index of the next restriction to visit
    fr_tmp,             \* the local tmp
    fr_out,             \* the string returned
    fr_pc,              \* "call", "loop" or "done"
    \* Collection::inventory and generate_xls at the full width of u32
    xls_catalog,        \* the catalog argument
    xls_data,           \* the data argument
    xls_collection,     \* the collection argument
    xls_only_owned,     \* the only_owned argument
    xls_checks,         \* whether the build has overflow-checks on
    xls_inventory,      \* the inventory Collection::inventory returned
    xls_expansions,     \* the data rows of the Expansions sheet
    xls_sheets,         \* the data rows of the Ships, Pilots and Upgrades sheets
    xls_pc,             \* the call being made, "panicked" or "done"
    \* main
    main_args,          \* the parsed command line
    main_manifest,      \* what Data::load_from_manifest finds
    main_yasb_file,     \* what yasb2::Collection::load finds
    main_fs,            \* whether inventory.json can be created and written
    main_data,          \* the local data
    main_catalog,       \* the local catalog
    main_yasb_coll,     \* the local yasb_coll
    main_skus,          \* the local skus
    main_out,           \* inventory.json
    main_exit,          \* how the process ended
    main_pc             \* the step main is to do next

load_vars == <<file, list, catalog, load_pc, load_result>>

inv_vars == <<inv_catalog, collection, skus_iter, inventory, inv_missing, inv_pc>>

yasb_vars == <<yasb_expansions, yasb, yasb_pc, yasb_iter, item_counts, missing_singles,
               missing_expansions, printed, visited, xws_collection>>

xws_vars == <<xws_name, xws_typ, xws_canon, xws_out, xws_pc>>

rec_vars == <<rec_inventory, rec_data, rec_catalog, rec_iter, records, rec_printed, rec_pc>>

fr_vars == <<fr_data, fr_restrictions, fr_kind, fr_next, fr_tmp, fr_out, fr_pc>>

xls_vars == <<xls_catalog, xls_data, xls_collection, xls_only_owned, xls_checks,
              xls_inventory, xls_expansions, xls_sheets, xls_pc>>

main_vars == <<main_args, main_manifest, main_yasb_file, main_fs, main_data, main_catalog,
               main_yasb_coll, main_skus, main_out, main_exit, main_pc>>

vars == <<load_vars, inv_vars, yasb_vars, xws_vars, rec_vars, fr_vars, xls_vars, main_vars>>

\* generate_xls is not running.
XlsIdle ==
    /\ xls_catalog = [expansions |-> <<>>, sources |-> <<>>]
    /\ xls_data = [ships |-> <<>>, upgrades |-> <<>>, factions |-> <<>>]
    /\ xls_collection = [skus |-> <<>>, singles |-> <<>>]
    /\ xls_only_owned = FALSE
    /\ xls_checks = FALSE
    /\ xls_inventory = <<>>
    /\ xls_expansions = <<>>
    /\ xls_sheets = <<>>
    /\ xls_pc = "idle"

\* main is not running.
MainIdle ==
    /\ main_args = [list_missing |-> FALSE]
    /\ main_manifest = [tag |-> "None"]
    /\ main_yasb_file = [tag |-> "None"]
    /\ main_fs = "ok"
    /\ main_data = [tag |-> "None"]
    /\ main_catalog = [tag |-> "None"]
    /\ main_yasb_coll = [tag |-> "None"]
    /\ main_skus = [tag |-> "None"]
    /\ main_out = [tag |-> "None"]
    /\ main_exit = [tag |-> "None"]
    /\ main_pc = "idle"

\* to_canonical and to_xws are not running.
XwsIdle ==
    /\ xws_name = <<>>
    /\ xws_typ = "Ship"
    /\ xws_canon = <<>>
    /\ xws_out = <<>>
    /\ xws_pc = "idle"

\* Records::build is not running.
RecIdle ==
    /\ rec_inventory = <<>>
    /\ rec_data = [ships |-> {}, pilots |-> {}, upgrades |-> {}]
    /\ rec_catalog = [expansions |-> <<>>, sources |-> <<>>]
    /\ rec_iter = {}
    /\ records = [ships |-> <<>>, pilots |-> <<>>, upgrades |-> <<>>]
    /\ rec_printed = <<>>
    /\ rec_pc = "idle"

\* format_restriction is not running.
FrIdle ==
    /\ fr_data = [factions |-> <<>>, ships |-> <<>>]
    /\ fr_restrictions = <<>>
    /\ fr_kind = "Factions"
    /\ fr_next = 0
    /\ fr_tmp = <<>>
    /\ fr_out = <<>>
    /\ fr_pc = "idle"

\* inventory is not running.
InvIdle ==
    /\ inv_catalog = [expansions |-> <<>>, sources |-> <<>>]
    /\ collection = [skus |-> <<>>, singles |-> <<>>]
    /\ skus_iter = <<>>
    /\ inventory = <<>>
    /\ inv_missing = <<>>
    /\ inv_pc = "idle"

\* to_xws_collection is not running.
YasbIdle ==
    /\ yasb_expansions = <<>>
    /\ yasb = [expansions |-> <<>>, singletons |-> [some |-> FALSE]]
    /\ yasb_pc = "idle"
    /\ yasb_iter = {}
    /\ item_counts = <<>>
    /\ missing_singles = <<>>
    /\ missing_expansions = <<>>
    /\ printed = <<>>
    /\ visited = <<>>
    /\ xws_collection = [tag |-> "None"]

\* load is not running.
LoadIdle ==
    /\ file = [readable |-> FALSE]
    /\ list = <<>>
    /\ catalog = [expansions |-> <<>>, sources |-> <<>>]
    /\ load_pc = "idle"
    /\ load_result = [tag |-> "None"]

-----------------------------------------------------------------------------
(* Catalog::load *)

\* A file that cannot be read or parsed.
Unreadable == [readable |-> FALSE]

Readable(l) == [readable |-> TRUE, list |-> l]

NoResult == [tag |-> "None"]

Ok(v) == [tag |-> "Ok", value |-> v]

Err(kind, what) == [tag |-> "Err", kind |-> kind, what |-> what]

\* A local that went out of scope.
Dropped == [dropped |-> TRUE]

ExpansionFiles ==
    {Unreadable} \cup { Readable(l) : l \in SeqsUpTo(RawExpansions, MaxList) }

LoadInit ==
    /\ XlsIdle
    /\ MainIdle
    /\ InvIdle
    /\ YasbIdle
    /\ XwsIdle
    /\ RecIdle
    /\ FrIdle
    /\ file \in ExpansionFiles
    /\ list = <<>>
    /\ catalog = EmptyCatalog
    /\ load_pc = "read"
    /\ load_result = NoResult

\* fs::read_to_string(..)? and serde_json::from_str(..)?
LoadRead ==
    /\ load_pc = "read"
    /\ IF file = Unreadable
       THEN /\ load_result' = Err("Io", <<>>)
            /\ load_pc' = "done"
            /\ catalog' = Dropped
            /\ list' = list
       ELSE /\ list' = file.list
            /\ load_pc' = "drain"
            /\ UNCHANGED <<catalog, load_result>>
    /\ UNCHANGED <<file, inv_vars, yasb_vars,
                 xws_vars, rec_vars, fr_vars, xls_vars, main_vars>>

\* One round of `for expansion in list.drain(..)`: the sources are extended
\* first, then the expansion is inserted; a repeated sku returns the error and
\* the catalog built so far is lost with the stack frame.
LoadExpansion ==
    /\ load_pc = "drain"
    /\ list # <<>>
    /\ LET expansion == Head(list)
           sku == expansion.sku
           sources == AddSources(catalog.sources, sku, expansion.contents)
       IN  IF InsertReplaces(catalog.expansions, sku)
           THEN /\ load_result' = Err("InvalidData", sku)
                /\ load_pc' = "done"
                /\ catalog' = Dropped
                /\ list' = <<>>
           ELSE /\ catalog' = [expansions |-> MapInsert(catalog.expansions, sku, expansion),
                               sources |-> sources]
                /\ list' = Tail(list)
                /\ UNCHANGED <<load_pc, load_result>>
    /\ UNCHANGED <<file, inv_vars, yasb_vars,
                 xws_vars, rec_vars, fr_vars, xls_vars, main_vars>>

\* Ok(catalog)
LoadReturn ==
    /\ load_pc = "drain"
    /\ list = <<>>
    /\ load_result' = Ok(catalog)
    /\ load_pc' = "done"
    /\ catalog' = Dropped
    /\ UNCHANGED <<file, list, inv_vars, yasb_vars,
                 xws_vars, rec_vars, fr_vars, xls_vars, main_vars>>

LoadNext == LoadRead \/ LoadExpansion \/ LoadReturn

\* Catalog::load on every expansion file within the bounds.
SpecLoad == LoadInit /\ [][LoadNext]_vars

-----------------------------------------------------------------------------
(* Claims about Catalog::load *)

Loaded == load_pc = "done" /\ load_result.tag = "Ok"

\* The sku of the first expansion whose sku was seen before it.
FirstRepeat(l) ==
    LET j == CHOOSE j \in DOMAIN l :
                 /\ \E i \in 1..(j - 1) : l[i].sku = l[j].sku
                 /\ \A k \in 1..(j - 1) : ~ \E i \in 1..(k - 1) : l[i].sku = l[k].sku
    IN  l[j].sku

\* C3: load of a list in which some sku occurs twice, at any two positions,
\* returns the duplicate-sku error naming the first repeated sku and no
\* catalog, not even the part built so far; load of a list of distinct skus
\* returns a catalog whose expansions map holds exactly one entry per input
\* expansion, that expansion itself.
ThmC3 ==
    (load_pc = "done" /\ file.readable) =>
        IF RepeatsSku(file.list)
        THEN /\ load_result = Err("InvalidData", FirstRepeat(file.list))
             /\ "value" \notin DOMAIN load_result
             /\ catalog = Dropped
        ELSE /\ load_result.tag = "Ok"
             /\ DOMAIN load_result.value.expansions =
                    { file.list[i].sku : i \in DOMAIN file.list }
             /\ Cardinality(DOMAIN load_result.value.expansions) = Len(file.list)
             /\ \A i \in DOMAIN file.list :
                    load_result.value.expansions[file.list[i].sku] = file.list[i]

\* A load that failed on a list whose first and third expansions share a sku
\* the second does not have.
WitC3 ==
    /\ load_pc = "done"
    /\ file.readable
    /\ load_result.tag = "Err"
    /\ Len(file.list) = 3
    /\ file.list[1].sku = file.list[3].sku
    /\ file.list[1].sku # file.list[2].sku

\* The skus of the loaded expansions whose contents name the item.
Containing(expansions, item) ==
    { sku \in DOMAIN expansions :
        \E i \in DOMAIN expansions[sku].contents :
            expansions[sku].contents[i].item = item }

\* C4 as stated: after a successful load every item has exactly one source
\* entry per expansion containing it, carrying that expansion's sku and that
\* expansion's content count for the item.
CexC4 ==
    Loaded =>
        \A item \in AllItems \cup {PilotRey} :
            LET cat == load_result.value
                src == GetOr(cat.sources, item, <<>>)
                exps == Containing(cat.expansions, item)
            IN  /\ Len(src) = Cardinality(exps)
                /\ \A sku \in exps :
                       \E k \in DOMAIN src :
                           /\ src[k].item.xws = sku
                           /\ \A i \in DOMAIN cat.expansions[sku].contents :
                                  cat.expansions[sku].contents[i].item = item
                                      => src[k].count = cat.expansions[sku].contents[i].count

\* The source entries one expansion gives an item: one per content entry
\* naming it, in content order.
RECURSIVE EntriesFrom(_, _, _)
EntriesFrom(sku, contents, item) ==
    IF contents = <<>> THEN <<>>
    ELSE (IF Head(contents).item = item
          THEN << [item |-> [type |-> item.type, xws |-> sku],
                   count |-> Head(contents).count] >>
          ELSE <<>>) \o EntriesFrom(sku, Tail(contents), item)

RECURSIVE ExpectedSources(_, _)
ExpectedSources(l, item) ==
    IF l = <<>> THEN <<>>
    ELSE EntriesFrom(Head(l).sku, Head(l).contents, item)
             \o ExpectedSources(Tail(l), item)

\* C4, amended: after a successful load every item has exactly one source
\* entry per content entry naming it (an expansion that lists the item k times
\* gives k entries), in list order and then content order, each carrying the
\* sku of its expansion and the count of its content entry; an item no
\* expansion names has no sources key.  Nothing but the expansion list is read.
ThmC4 ==
    Loaded =>
        \A item \in AllItems \cup {PilotRey} :
            LET cat == load_result.value
                want == ExpectedSources(file.list, item)
            IN  /\ item \in DOMAIN cat.sources <=> want # <<>>
                /\ item \in DOMAIN cat.sources => cat.sources[item] = want

\* A loaded catalog in which one item has three sources, two of them from the
\* same expansion.
WitC4 ==
    /\ Loaded
    /\ \E item \in DOMAIN load_result.value.sources :
           LET src == load_result.value.sources[item]
           IN  /\ Len(src) = 3
               /\ \E i, j, k \in DOMAIN src :
                      /\ i # j
                      /\ src[i].item.xws = src[j].item.xws
                      /\ src[k].item.xws # src[i].item.xws


\* The sum of the lengths of the lists a map holds under the keys in S.
RECURSIVE TotalLen(_, _)
TotalLen(m, S) ==
    IF S = {} THEN 0
    ELSE LET k == CHOOSE x \in S : TRUE
         IN  Len(m[k]) + TotalLen(m, S \ {k})

\* The items the contents lists of the loaded expansions name.
ContentItems(expansions) ==
    UNION { { expansions[sku].contents[i].item : i \in DOMAIN expansions[sku].contents } :
            sku \in DOMAIN expansions }

\* The contents lists by sku.
ContentsBySku(expansions) == [sku \in DOMAIN expansions |-> expansions[sku].contents]

\* C27: after a successful load the keys of catalog.sources are exactly the
\* items named in the contents of some loaded expansion, so has_item(item)
\* holds exactly for the keys of sources; the sku every source entry carries
\* is a key of catalog.expansions; and there are as many source entries in all
\* as content entries in all.
ThmC27 ==
    Loaded =>
        LET cat == load_result.value
        IN  /\ DOMAIN cat.sources = ContentItems(cat.expansions)
            /\ \A item \in AllItems \cup {PilotRey} :
                   has_item(cat, item) <=> item \in DOMAIN cat.sources
            /\ \A item \in DOMAIN cat.sources :
                   \A k \in DOMAIN cat.sources[item] :
                       cat.sources[item][k].item.xws \in DOMAIN cat.expansions
            /\ TotalLen(cat.sources, DOMAIN cat.sources) =
                   TotalLen(ContentsBySku(cat.expansions), DOMAIN cat.expansions)

\* A catalog of two expansions, one of which lists an item twice: three
\* content entries and three source entries over fewer keys.
WitC27 ==
    /\ Loaded
    /\ Cardinality(DOMAIN load_result.value.expansions) = 2
    /\ \E sku \in DOMAIN load_result.value.expansions :
           load_result.value.expansions[sku].contents = ContentsTwice
    /\ \E sku \in DOMAIN load_result.value.expansions :
           load_result.value.expansions[sku].contents = ContentsPair
    /\ Cardinality(DOMAIN load_result.value.sources) = 3
    /\ TotalLen(load_result.value.sources, DOMAIN load_result.value.sources) = 4
    /\ ~ has_item(load_result.value, PilotRey)
-----------------------------------------------------------------------------
(* Collection::inventory *)

\* u32 `*` and `+`.  Every count of the model is far below 2^32, so neither
\* wraps (release build) nor panics (debug build) here.
U32Mul(a, b) == a * b

U32Add(a, b) == a + b

\* The catalog load builds from a list without a repeated sku.
RECURSIVE CatalogOf(_)
CatalogOf(l) ==
    IF l = <<>> THEN EmptyCatalog
    ELSE LET before == CatalogOf(SubSeq(l, 1, Len(l) - 1))
             e == l[Len(l)]
         IN  [expansions |-> MapInsert(before.expansions, e.sku, e),
              sources |-> AddSources(before.sources, e.sku, e.contents)]

\* As AddContents, but the expansion's share replaces what the item had.
RECURSIVE AddContentsOverwrite(_, _, _)
AddContentsOverwrite(inv, c, contents) ==
    IF contents = <<>> THEN inv
    ELSE LET item_count == Head(contents)
             total == U32Mul(c, item_count.count)
         IN  AddContentsOverwrite(MapInsert(inv, item_count.item, total), c,
                                  Tail(contents))

\* `for item_count in &expansion.contents`: add c copies of every content
\* entry to the item's count, starting from 0 for an item not yet present.
RECURSIVE AddContents(_, _, _)
AddContents(inv, c, contents) ==
    IF contents = <<>> THEN inv
    ELSE LET item_count == Head(contents)
             total == U32Add(GetOr(inv, item_count.item, 0),
                                   U32Mul(c, item_count.count))
         IN  AddContents(MapInsert(inv, item_count.item, total), c, Tail(contents))

\* As InventorySku, but every sku visited is reported missing.
InventorySkuReportsAll(st, cat, sku, c) ==
    IF sku \in DOMAIN cat.expansions
    THEN [inventory |-> AddContents(st.inventory, c, cat.expansions[sku].contents),
          missing |-> Append(st.missing, sku)]
    ELSE [inventory |-> st.inventory, missing |-> Append(st.missing, sku)]

\* The body of `for (sku, c) in &self.skus`, on the pair of locals
\* st = [inventory, missing].
InventorySku(st, cat, sku, c) ==
    IF sku \in DOMAIN cat.expansions
    THEN [inventory |-> AddContents(st.inventory, c, cat.expansions[sku].contents),
          missing |-> st.missing]
    ELSE [inventory |-> st.inventory, missing |-> Append(st.missing, sku)]

\* The loop run over the skus in a given order.
RECURSIVE InventoryOver(_, _, _, _)
InventoryOver(st, cat, skus, order) ==
    IF order = <<>> THEN st
    ELSE InventoryOver(InventorySku(st, cat, Head(order), skus[Head(order)]),
                       cat, skus, Tail(order))

OwnedSkus == CatalogSkus \cup {SkuLegacy}

\* Items a collection may hold as singles: one that expansions also supply
\* under the same and under another type, and one no expansion supplies.
SingleItems == {ShipXWing, UpgradeHanSolo, PilotRey}

Catalogs ==
    { CatalogOf(l) : l \in { l \in SeqsUpTo(RawExpansions, Cardinality(CatalogSkus)) :
                               ~ RepeatsSku(l)
                               /\ \A i \in 1..(Len(l) - 1) : StrLess(l[i].sku, l[i+1].sku) } }

Collections ==
    { [skus |-> s, singles |-> g] :
        s \in MapsUpTo(OwnedSkus, 0..MaxCount, Cardinality(OwnedSkus)),
        g \in MapsUpTo(SingleItems, 1..MaxCount, 1) }

InvInit ==
    /\ XlsIdle
    /\ MainIdle
    /\ LoadIdle
    /\ YasbIdle
    /\ XwsIdle
    /\ RecIdle
    /\ FrIdle
    /\ inv_catalog \in Catalogs
    /\ collection \in Collections
    /\ skus_iter = <<>>
    /\ inventory = <<>>
    /\ inv_missing = <<>>
    /\ inv_pc = "call"

\* let mut inventory = self.singles.clone(); let mut missing_expansions = vec![];
InventoryCall ==
    /\ inv_pc = "call"
    /\ inventory' = collection.singles
    /\ inv_missing' = <<>>
    /\ skus_iter' = SortedKeys(DOMAIN collection.skus)
    /\ inv_pc' = "loop"
    /\ UNCHANGED <<inv_catalog, collection, load_vars, xls_vars, main_vars, yasb_vars,
                 xws_vars, rec_vars, fr_vars>>

InventoryLoop ==
    /\ inv_pc = "loop"
    /\ skus_iter # <<>>
    /\ LET sku == Head(skus_iter)
           st == InventorySku([inventory |-> inventory, missing |-> inv_missing],
                              inv_catalog, sku, collection.skus[sku])
       IN  /\ inventory' = st.inventory
           /\ inv_missing' = st.missing
    /\ skus_iter' = Tail(skus_iter)
    /\ UNCHANGED <<inv_catalog, collection, inv_pc, load_vars, xls_vars, main_vars, yasb_vars,
                 xws_vars, rec_vars, fr_vars>>

\* (inventory, missing_expansions)
InventoryReturn ==
    /\ inv_pc = "loop"
    /\ skus_iter = <<>>
    /\ inv_pc' = "done"
    /\ UNCHANGED <<inv_catalog, collection, skus_iter, inventory, inv_missing,
                   load_vars, xls_vars, main_vars, yasb_vars,
                 xws_vars, rec_vars, fr_vars>>

InvNext == InventoryCall \/ InventoryLoop \/ InventoryReturn

\* Collection::inventory on every collection and catalog within the bounds.
SpecInv == InvInit /\ [][InvNext]_vars

-----------------------------------------------------------------------------
(* Claims about Collection::inventory *)

InvDone == inv_pc = "done"

ItemUniverse == AllItems \cup SingleItems

\* How many of the item one copy of an expansion holds: the counts of all its
\* content entries naming the item.
RECURSIVE PerCopy(_, _)
PerCopy(contents, item) ==
    IF contents = <<>> THEN 0
    ELSE (IF Head(contents).item = item THEN Head(contents).count ELSE 0)
             + PerCopy(Tail(contents), item)

\* The owned skus the catalog knows.
KnownOwned == (DOMAIN collection.skus) \cap (DOMAIN inv_catalog.expansions)

RECURSIVE FromExpansions(_, _)
FromExpansions(S, item) ==
    IF S = {} THEN 0
    ELSE LET sku == CHOOSE s \in S : TRUE
         IN  collection.skus[sku] * PerCopy(inv_catalog.expansions[sku].contents, item)
                 + FromExpansions(S \ {sku}, item)

Supplied(item) ==
    \E sku \in KnownOwned :
        \E i \in DOMAIN inv_catalog.expansions[sku].contents :
            inv_catalog.expansions[sku].contents[i].item = item

\* C1: the inventory returned holds, for every item, its singles count (0 if
\* absent) plus, over every owned sku the catalog knows, the owned count times
\* the count of each content entry naming the item; its keys are the singles
\* and the items those expansions name.
ThmC1 ==
    InvDone =>
        \A item \in ItemUniverse :
            /\ GetOr(inventory, item, 0) =
                   GetOr(collection.singles, item, 0) + FromExpansions(KnownOwned, item)
            /\ item \in DOMAIN inventory <=>
                   (item \in DOMAIN collection.singles \/ Supplied(item))

\* Two copies of an expansion with four contents of count 1, nothing else
\* owned: exactly those four items, two of each.
WitC1 ==
    /\ InvDone
    /\ collection.singles = <<>>
    /\ \E sku \in DOMAIN inv_catalog.expansions :
           /\ inv_catalog.expansions[sku].contents = ContentsFour
           /\ DOMAIN collection.skus = {sku}
           /\ collection.skus[sku] = 2
    /\ DOMAIN inventory = {ShipXWing, PilotHanSolo, UpgradeRey, UpgradeHanSolo}
    /\ \A item \in DOMAIN inventory : inventory[item] = 2

\* Every order in which the keys of a map can be visited.
Orders(S) ==
    { f \in [1..Cardinality(S) -> S] : \A i, j \in DOMAIN f : f[i] = f[j] => i = j }

\* C2: visiting the owned skus in any order gives the inventory the call
\* returned: the same keys with the same counts.
ThmC2 ==
    InvDone =>
        \A order \in Orders(DOMAIN collection.skus) :
            InventoryOver([inventory |-> collection.singles, missing |-> <<>>],
                          inv_catalog, collection.skus, order).inventory = inventory

\* Two owned expansions and a single all supply one item.
WitC2 ==
    /\ InvDone
    /\ \E a, b \in KnownOwned :
           /\ a # b
           /\ collection.skus[a] > 0
           /\ collection.skus[b] > 0
           /\ \E item \in DOMAIN collection.singles :
                  /\ PerCopy(inv_catalog.expansions[a].contents, item) > 0
                  /\ PerCopy(inv_catalog.expansions[b].contents, item) > 0
                  /\ inventory[item] > collection.singles[item]
                         + collection.skus[a] * PerCopy(inv_catalog.expansions[a].contents, item)

UnknownOwned == (DOMAIN collection.skus) \ (DOMAIN inv_catalog.expansions)

\* C5: every owned sku the catalog does not know is in the returned list
\* exactly once and no other sku is; the inventory is the one the collection
\* without those skus gives, so the known skus are aggregated in full.
ThmC5 ==
    InvDone =>
        /\ Range(inv_missing) = UnknownOwned
        /\ Len(inv_missing) = Cardinality(UnknownOwned)
        /\ \A i \in DOMAIN inv_missing : inv_missing[i] \notin DOMAIN inv_catalog.expansions
        /\ inventory =
               InventoryOver([inventory |-> collection.singles, missing |-> <<>>],
                             inv_catalog, collection.skus,
                             SortedKeys(KnownOwned)).inventory
        /\ \A item \in ItemUniverse :
               GetOr(inventory, item, 0) =
                   GetOr(collection.singles, item, 0) + FromExpansions(KnownOwned, item)

\* An unknown sku visited before a known one that was aggregated.
WitC5 ==
    /\ InvDone
    /\ SkuLegacy \in UnknownOwned
    /\ collection.skus[SkuLegacy] > 0
    /\ inv_missing # <<>>
    /\ \E sku \in KnownOwned :
           /\ StrLess(SkuLegacy, sku)
           /\ collection.skus[sku] > 0
           /\ inv_catalog.expansions[sku].contents # <<>>
    /\ inventory # collection.singles


\* C22: the inventory starts as a copy of the singles and is only added to.
\* An item that no owned expansion known to the catalog lists keeps exactly
\* its singles count, and stays absent if it is no single; every other item is
\* present with at least its singles count; no round of the loop removes a
\* key or lowers a count; the collection (skus and singles) and the catalog
\* are the same after every step of the call.
ThmC22 ==
    /\ [](InvDone =>
             \A item \in ItemUniverse :
                 IF Supplied(item)
                 THEN /\ item \in DOMAIN inventory
                      /\ inventory[item] >= GetOr(collection.singles, item, 0)
                 ELSE /\ item \in DOMAIN inventory <=> item \in DOMAIN collection.singles
                      /\ item \in DOMAIN collection.singles =>
                             inventory[item] = collection.singles[item])
    /\ [][/\ collection' = collection
          /\ inv_catalog' = inv_catalog
          /\ inv_pc = "call" => inventory' = collection.singles
          /\ inv_pc = "loop" =>
                 \A item \in DOMAIN inventory :
                     /\ item \in DOMAIN inventory'
                     /\ inventory'[item] >= inventory[item]]_vars

\* A single that no expansion lists kept its count of 2 while an owned
\* expansion added other items.
WitC22 ==
    /\ InvDone
    /\ DOMAIN collection.singles = {PilotRey}
    /\ collection.singles[PilotRey] = 2
    /\ inventory[PilotRey] = 2
    /\ \E item \in DOMAIN inventory : item # PilotRey /\ inventory[item] > 0
    /\ \E sku \in KnownOwned : collection.skus[sku] = 0
-----------------------------------------------------------------------------
(* yasb2::Collection::to_xws_collection *)

DigitSeq == <<"0","1","2","3","4","5","6","7","8","9">>

DigitValue(c) == (CHOOSE i \in DOMAIN DigitSeq : DigitSeq[i] = c) - 1

\* u32::to_string
RECURSIVE Decimal(_)
Decimal(n) ==
    IF n < 10 THEN <<DigitSeq[n + 1]>>
    ELSE Decimal(n \div 10) \o <<DigitSeq[(n % 10) + 1]>>

RECURSIVE StripZeros(_)
StripZeros(d) == IF d # <<>> /\ Head(d) = "0" THEN StripZeros(Tail(d)) ELSE d

RECURSIVE DigitsValue(_, _)
DigitsValue(d, acc) ==
    IF d = <<>> THEN acc
    ELSE DigitsValue(Tail(d), 10 * acc + DigitValue(Head(d)))

U32MaxDigits == <<"4","2","9","4","9","6","7","2","9","5">>

\* parse().unwrap_or(0) in place of parse().unwrap(): a string that is no u32
\* counts as 0.
ParseU32OrZero(s) ==
    LET d == IF s # <<>> /\ Head(s) = "+" THEN Tail(s) ELSE s
        sig == StripZeros(d)
        bad == \/ d = <<>>
               \/ \E i \in DOMAIN d : d[i] \notin AsciiDigit
               \/ Len(sig) > Len(U32MaxDigits)
               \/ (Len(sig) = Len(U32MaxDigits) /\ StrLess(U32MaxDigits, sig))
    IN  [ok |-> TRUE, value |-> IF bad THEN 0 ELSE DigitsValue(sig, 0)]

\* str::parse::<u32>: an optional '+', then one or more decimal digits whose
\* value fits u32; anything else is an error.
ParseU32(s) ==
    LET d == IF s # <<>> /\ Head(s) = "+" THEN Tail(s) ELSE s
        sig == StripZeros(d)
    IN  IF d = <<>> \/ \E i \in DOMAIN d : d[i] \notin AsciiDigit
            THEN [ok |-> FALSE, value |-> 0]
        ELSE IF Len(sig) > Len(U32MaxDigits)
                 \/ (Len(sig) = Len(U32MaxDigits) /\ StrLess(U32MaxDigits, sig))
            THEN [ok |-> FALSE, value |-> 0]
        ELSE [ok |-> TRUE, value |-> DigitsValue(sig, 0)]

\* expansions::has_item over the expansions argument: some expansion, of any
\* edition, lists the item.
expansions_has_item(exps, item) ==
    \E i \in DOMAIN exps :
        \E j \in DOMAIN exps[i].contents : exps[i].contents[j].item = item

\* As exp_search, without the edition test.
exp_search_any_edition(exps, e) ==
    IF \E i \in DOMAIN exps : exps[i].name = e
    THEN CHOOSE i \in DOMAIN exps :
             /\ exps[i].name = e
             /\ \A k \in 1..(i - 1) : ~ (exps[k].name = e)
    ELSE 0

\* As exp_search, comparing the canonical forms of the two names.
exp_search_canonical(exps, e) ==
    IF \E i \in DOMAIN exps :
           exps[i].edition = 2 /\ to_canonical(exps[i].name) = to_canonical(e)
    THEN CHOOSE i \in DOMAIN exps :
             /\ exps[i].edition = 2 /\ to_canonical(exps[i].name) = to_canonical(e)
             /\ \A k \in 1..(i - 1) :
                    ~ (exps[k].edition = 2 /\ to_canonical(exps[k].name) = to_canonical(e))
    ELSE 0

\* The inner loop of 'exp_search: the index of the first expansion of
\* edition 2 whose name is the declared name, or 0 when the loop falls through.
exp_search(exps, e) ==
    IF \E i \in DOMAIN exps : exps[i].edition = 2 /\ exps[i].name = e
    THEN CHOOSE i \in DOMAIN exps :
             /\ exps[i].edition = 2 /\ exps[i].name = e
             /\ \A k \in 1..(i - 1) : ~ (exps[k].edition = 2 /\ exps[k].name = e)
    ELSE 0

\* The locals of to_xws_collection.
Locals(ic, ms, me, pr) ==
    [item_counts |-> ic, missing_singles |-> ms, missing_expansions |-> me,
     printed |-> pr]

\* As SingleEntry, but a count of 0 is inserted like any other.
SingleEntryKeepsZero(st, exps, typ, name, n) ==
    LET item == Item(typ, to_xws(name, typ))
    IN  IF ~ expansions_has_item(exps, item)
            THEN [st EXCEPT !.missing_singles = Append(@, item)]
        ELSE IF item \in DOMAIN st.item_counts
            THEN [st EXCEPT !.printed = Append(@, name)]
        ELSE [st EXCEPT !.item_counts = MapInsert(@, item, n)]

\* As SingleEntry, but a second entry for an item is added to the first.
SingleEntrySums(st, exps, typ, name, n) ==
    LET item == Item(typ, to_xws(name, typ))
    IN  IF n = 0 THEN st
        ELSE IF ~ expansions_has_item(exps, item)
            THEN [st EXCEPT !.missing_singles = Append(@, item)]
        ELSE [st EXCEPT !.item_counts =
                            MapInsert(@, item, U32Add(GetOr(@, item, 0), n))]

\* As SingleEntry, but the item is not looked up in the expansions.
SingleEntryUnchecked(st, exps, typ, name, n) ==
    LET item == Item(typ, to_xws(name, typ))
    IN  IF n = 0 THEN st
        ELSE IF item \in DOMAIN st.item_counts
            THEN [st EXCEPT !.printed = Append(@, name)]
        ELSE [st EXCEPT !.item_counts = MapInsert(@, item, n)]

\* As SingleEntry, but an item counts as present when any item of its xws id
\* is, whatever the type.
SingleEntryById(st, exps, typ, name, n) ==
    LET item == Item(typ, to_xws(name, typ))
    IN  IF n = 0 THEN st
        ELSE IF ~ expansions_has_item(exps, item)
            THEN [st EXCEPT !.missing_singles = Append(@, item)]
        ELSE IF \E k \in DOMAIN st.item_counts : k.xws = item.xws
            THEN [st EXCEPT !.printed = Append(@, name)]
        ELSE [st EXCEPT !.item_counts = MapInsert(@, item, n)]

\* The body of each of the three singletons loops, after the count parsed to
\* n: skip a zero, report an item no expansion lists, ignore (and print) a
\* name whose item is already counted, otherwise insert.
SingleEntry(st, exps, typ, name, n) ==
    LET item == Item(typ, to_xws(name, typ))
    IN  IF n = 0 THEN st
        ELSE IF ~ expansions_has_item(exps, item)
            THEN [st EXCEPT !.missing_singles = Append(@, item)]
        ELSE IF item \in DOMAIN st.item_counts
            THEN [st EXCEPT !.printed = Append(@, name)]
        ELSE [st EXCEPT !.item_counts = MapInsert(@, item, n)]

\* As ExpansionEntry, but a count of 0 is aggregated like any other.
ExpansionEntryKeepsZero(st, exps, e, n) ==
    LET i == exp_search(exps, e)
    IN  IF i # 0
            THEN [st EXCEPT !.item_counts = AddContents(@, n, exps[i].contents)]
        ELSE [st EXCEPT !.missing_expansions = Append(@, e)]

\* The body of 'exp_search after the count parsed to n.
ExpansionEntry(st, exps, e, n) ==
    LET i == exp_search(exps, e)
    IN  IF n = 0 THEN st
        ELSE IF i # 0
            THEN [st EXCEPT !.item_counts = AddContents(@, n, exps[i].contents)]
        ELSE [st EXCEPT !.missing_expansions = Append(@, e)]

\* Display names of singles
DisplayHanSolo      == <<"H","a","n"," ","S","o","l","o">>
DisplayHanSoloLower == <<"h","a","n"," ","s","o","l","o">>
DisplayRey          == <<"R","e","y">>
DisplayXWing        == <<"X","-","W","i","n","g">>

\* An expansion as to_xws_collection reads it: name, edition() and contents.
YasbExpansion(name, edition, contents) ==
    [name |-> name, edition |-> edition, contents |-> contents]

\* The expansions an expansions argument may hold: second and first edition
\* products of one name, and one whose name differs only in case.
YasbExpansions ==
    { YasbExpansion(NameT70, 2, ContentsFour), YasbExpansion(NameT70, 1, ContentsTwice),
      YasbExpansion(NameT70Low, 2, ContentsTwice), YasbExpansion(NameT70, 2, ContentsPair) }

\* The expansions arguments: up to two different expansions, in either order.
ExpansionLists ==
    { l \in SeqsUpTo(YasbExpansions, 2) : \A i, j \in DOMAIN l : l[i] = l[j] => i = j }

\* The keys of a declaration: the map an entry is in and its display name.
DeclKey(map, name) == [map |-> map, name |-> name]

DeclKeys ==
    { DeclKey("upgrade", DisplayHanSolo), DeclKey("upgrade", DisplayHanSoloLower),
      DeclKey("upgrade", DisplayRey), DeclKey("pilot", DisplayHanSolo),
      DeclKey("ship", DisplayXWing),
      DeclKey("expansions", NameT70), DeclKey("expansions", NameT70Low) }

\* Count strings: the decimal numbers up to MaxCount and one that is no number.
CountStrings == { Decimal(n) : n \in 0..MaxCount } \cup { <<"x">> }

\* The HashMap<String, String> a flat declaration m holds for one map.
SubMap(m, map) ==
    [ name \in { k.name : k \in { k \in DOMAIN m : k.map = map } } |->
          m[DeclKey(map, name)] ]

\* Collection { expansions, singletons }; a singletons map that is None is
\* read as an empty one (unwrap_or(&HashMap::new())).
Declaration(m, some) ==
    [expansions |-> SubMap(m, "expansions"),
     singletons |-> IF some
                    THEN [some |-> TRUE, ship |-> SubMap(m, "ship"),
                          upgrade |-> SubMap(m, "upgrade"), pilot |-> SubMap(m, "pilot")]
                    ELSE [some |-> FALSE]]

\* Count strings at the edges of u32's grammar: empty, signed, too large by
\* one, with a stray character or a blank (none is a u32), and two spellings
\* of 1 that are.
OddCountStrings ==
    { <<>>, <<"-","1">>, <<"4","2","9","4","9","6","7","2","9","6">>, <<"1","x">>,
      <<" ","1">>, <<"+","1">>, <<"0","1">> }

\* Declarations of one entry with such a count string.
OddDeclarations ==
    { Declaration([k \in {key} |-> c], TRUE) : key \in DeclKeys, c \in OddCountStrings }

Declarations ==
    { Declaration(m, TRUE) : m \in MapsUpTo(DeclKeys, CountStrings, MaxDecl) }
    \cup OddDeclarations
    \cup { Declaration(m, FALSE) :
             m \in { m \in MapsUpTo(DeclKeys, CountStrings, MaxDecl) :
                       \A k \in DOMAIN m : k.map = "expansions" } }

\* The (name, count string) pairs of a HashMap.
Entries(m) == { <<name, m[name]>> : name \in DOMAIN m }

YasbInit ==
    /\ XlsIdle
    /\ MainIdle
    /\ LoadIdle
    /\ InvIdle
    /\ XwsIdle
    /\ RecIdle
    /\ FrIdle
    /\ yasb_expansions \in ExpansionLists
    /\ yasb \in Declarations
    /\ yasb_pc = "call"
    /\ yasb_iter = {}
    /\ item_counts = <<>>
    /\ missing_singles = <<>>
    /\ missing_expansions = <<>>
    /\ printed = <<>>
    /\ visited = <<>>
    /\ xws_collection = [tag |-> "None"]

yasb_args == <<yasb_expansions, yasb>>

\* The three locals are created; with singletons the upgrade loop starts,
\* without them the expansions loop does.
YasbCall ==
    /\ yasb_pc = "call"
    /\ item_counts' = <<>>
    /\ missing_singles' = <<>>
    /\ missing_expansions' = <<>>
    /\ IF yasb.singletons.some
       THEN /\ yasb_pc' = "upgrade"
            /\ yasb_iter' = Entries(yasb.singletons.upgrade)
       ELSE /\ yasb_pc' = "expansions"
            /\ yasb_iter' = Entries(yasb.expansions)
    /\ UNCHANGED <<yasb_args, printed, visited, xws_collection, load_vars, xls_vars, main_vars, inv_vars,
                 xws_vars, rec_vars, fr_vars>>

\* c.parse().unwrap() on a string that is no u32: the call panics and
\* returns nothing.
Panic ==
    /\ yasb_pc' = "panicked"
    /\ yasb_iter' = {}
    /\ item_counts' = <<>>
    /\ missing_singles' = <<>>
    /\ missing_expansions' = <<>>
    /\ UNCHANGED <<printed, xws_collection>>

\* One round of a singletons loop; a HashMap is visited in no particular order.
SingleLoop(map, typ) ==
    /\ yasb_pc = map
    /\ \E entry \in yasb_iter :
           LET n == ParseU32(entry[2])
               st == SingleEntry(Locals(item_counts, missing_singles,
                                        missing_expansions, printed),
                                 yasb_expansions, typ, entry[1], n.value)
           IN  /\ visited' = Append(visited, [map |-> map, name |-> entry[1], c |-> entry[2]])
               /\ IF ~ n.ok
                  THEN Panic
                  ELSE /\ item_counts' = st.item_counts
                       /\ missing_singles' = st.missing_singles
                       /\ printed' = st.printed
                       /\ yasb_iter' = yasb_iter \ {entry}
                       /\ UNCHANGED <<yasb_pc, missing_expansions, xws_collection>>
    /\ UNCHANGED <<yasb_args, load_vars, xls_vars, main_vars, inv_vars,
                 xws_vars, rec_vars, fr_vars>>

YasbUpgrade == SingleLoop("upgrade", "Upgrade")

YasbPilot == SingleLoop("pilot", "Pilot")

YasbShip == SingleLoop("ship", "Ship")

\* A loop has visited every entry: the next one starts.
YasbNextLoop ==
    /\ yasb_pc \in {"upgrade", "pilot", "ship"}
    /\ yasb_iter = {}
    /\ yasb_pc' = CASE yasb_pc = "upgrade" -> "pilot"
                    [] yasb_pc = "pilot" -> "ship"
                    [] yasb_pc = "ship" -> "expansions"
    /\ yasb_iter' = CASE yasb_pc = "upgrade" -> Entries(yasb.singletons.pilot)
                      [] yasb_pc = "pilot" -> Entries(yasb.singletons.ship)
                      [] yasb_pc = "ship" -> Entries(yasb.expansions)
    /\ UNCHANGED <<yasb_args, item_counts, missing_singles, missing_expansions,
                   printed, visited, xws_collection, load_vars, xls_vars, main_vars, inv_vars,
                 xws_vars, rec_vars, fr_vars>>

\* One round of 'exp_search.
YasbExpansionLoop ==
    /\ yasb_pc = "expansions"
    /\ \E entry \in yasb_iter :
           LET n == ParseU32(entry[2])
               st == ExpansionEntry(Locals(item_counts, missing_singles,
                                           missing_expansions, printed),
                                    yasb_expansions, entry[1], n.value)
           IN  /\ visited' = Append(visited, [map |-> "expansions", name |-> entry[1],
                                               c |-> entry[2]])
               /\ IF ~ n.ok
                  THEN Panic
                  ELSE /\ item_counts' = st.item_counts
                       /\ missing_expansions' = st.missing_expansions
                       /\ yasb_iter' = yasb_iter \ {entry}
                       /\ UNCHANGED <<yasb_pc, missing_singles, printed, xws_collection>>
    /\ UNCHANGED <<yasb_args, load_vars, xls_vars, main_vars, inv_vars,
                 xws_vars, rec_vars, fr_vars>>

\* XwsCollection { item_counts, missing_expansions, missing_singles }; the
\* item_counts vector holds the map's pairs in no particular order.
YasbReturn ==
    /\ yasb_pc = "expansions"
    /\ yasb_iter = {}
    /\ xws_collection' =
           [tag |-> "Some",
            item_counts |-> { ItemCount(k, item_counts[k]) : k \in DOMAIN item_counts },
            missing_expansions |-> missing_expansions,
            missing_singles |-> missing_singles]
    /\ yasb_pc' = "done"
    /\ UNCHANGED <<yasb_args, yasb_iter, item_counts, missing_singles,
                   missing_expansions, printed, visited, load_vars, xls_vars, main_vars, inv_vars,
                 xws_vars, rec_vars, fr_vars>>

YasbNext ==
    \/ YasbCall
    \/ YasbUpgrade
    \/ YasbPilot
    \/ YasbShip
    \/ YasbNextLoop
    \/ YasbExpansionLoop
    \/ YasbReturn

\* to_xws_collection on every declaration and expansions list within the
\* bounds, under every iteration order of the declaration's maps.
SpecYasb == YasbInit /\ [][YasbNext]_vars

-----------------------------------------------------------------------------
(* Claims about to_xws_collection *)

YasbDone == yasb_pc = "done"

\* The singletons loops are over and 'exp_search has visited nothing yet:
\* item_counts is the resolved singles map.
SinglesResolved ==
    /\ yasb_pc = "expansions"
    /\ \A i \in DOMAIN visited : visited[i].map # "expansions"

TypeOfMap(map) ==
    CASE map = "upgrade" -> "Upgrade"
      [] map = "pilot" -> "Pilot"
      [] map = "ship" -> "Ship"

IsSingle(v) == v.map # "expansions"

CountOf(v) == ParseU32(v.c).value

Nonzero(v) == ParseU32(v.c).ok /\ CountOf(v) # 0

\* The item each singles key of the model resolves to.
ResolvedItems ==
    [ k \in { k \in DeclKeys : k.map # "expansions" } |->
          Item(TypeOfMap(k.map), to_xws(k.name, TypeOfMap(k.map))) ]

ResolvedItem(v) == ResolvedItems[DeclKey(v.map, v.name)]

\* Some expansion of the argument lists the item.
Listed(item) ==
    \E i \in DOMAIN yasb_expansions :
        item \in { yasb_expansions[i].contents[j].item :
                     j \in DOMAIN yasb_expansions[i].contents }

\* The visited singles entries with a nonzero count that resolve to the item.
NamingSingles(item) ==
    { i \in DOMAIN visited :
        IsSingle(visited[i]) /\ Nonzero(visited[i]) /\ ResolvedItem(visited[i]) = item }

First(S) == CHOOSE i \in S : \A j \in S : i <= j

\* What the singles give an item: the count of the first visited entry
\* naming it, if some expansion lists the item.
SinglesPart(item) ==
    IF Listed(item) /\ NamingSingles(item) # {}
    THEN CountOf(visited[First(NamingSingles(item))])
    ELSE 0

\* The expansions of edition 2 with the name / of any edition with the name.
Edition2Named(name) ==
    { i \in DOMAIN yasb_expansions :
        yasb_expansions[i].edition = 2 /\ yasb_expansions[i].name = name }

Named(name) == { i \in DOMAIN yasb_expansions : yasb_expansions[i].name = name }

\* The visited expansion entries with a nonzero count.
OwnedEntries == { i \in DOMAIN visited : ~ IsSingle(visited[i]) /\ Nonzero(visited[i]) }

\* What the owned expansion entries in S give an item, each through the first
\* edition 2 expansion of its name.
RECURSIVE ExpansionsPart(_, _)
ExpansionsPart(S, item) ==
    IF S = {} THEN 0
    ELSE LET i == CHOOSE i \in S : TRUE
             hits == Edition2Named(visited[i].name)
         IN  (IF hits = {} THEN 0
              ELSE CountOf(visited[i])
                       * PerCopy(yasb_expansions[First(hits)].contents, item))
                 + ExpansionsPart(S \ {i}, item)

Occurrences(s, x) == Cardinality({ i \in DOMAIN s : s[i] = x })

TwoOwned == Cardinality(OwnedEntries) = 2 /\ DOMAIN yasb.expansions = { visited[i].name : i \in OwnedEntries }

\* C7 as stated: of two declared expansions with nonzero counts, one whose
\* name is the name of a catalog expansion and one whose name is no catalog
\* expansion's, the first is aggregated in full - the inventory is what it
\* alone gives - and the unresolved list is exactly the name of the second.
CexC7 ==
    (YasbDone /\ TwoOwned) =>
        \A a, b \in OwnedEntries :
            (Named(visited[a].name) # {} /\ Named(visited[b].name) = {}) =>
                /\ missing_expansions = << visited[b].name >>
                /\ \E x \in Named(visited[a].name) :
                       \A item \in AllItems :
                           GetOr(item_counts, item, 0) =
                               SinglesPart(item)
                                   + CountOf(visited[a]) * PerCopy(yasb_expansions[x].contents, item)

\* C7, amended: of two declared expansions with nonzero counts, one whose
\* name is the name of an edition 2 expansion and one whose name is no
\* edition 2 expansion's, the first is aggregated in full through the first
\* such expansion - the inventory is what it alone gives on top of the
\* singles - and the unresolved list is exactly the name of the second.
ThmC7 ==
    (YasbDone /\ TwoOwned) =>
        \A a, b \in OwnedEntries :
            (Edition2Named(visited[a].name) # {} /\ Edition2Named(visited[b].name) = {}) =>
                /\ missing_expansions = << visited[b].name >>
                /\ \A item \in AllItems :
                       GetOr(item_counts, item, 0) =
                           SinglesPart(item)
                               + CountOf(visited[a])
                                   * PerCopy(yasb_expansions[First(Edition2Named(visited[a].name))].contents, item)

\* One declared expansion aggregated through the second of two expansions of
\* its name (the first is of edition 1), the other reported.
WitC7 ==
    /\ YasbDone
    /\ TwoOwned
    /\ Len(missing_expansions) = 1
    /\ \E a \in OwnedEntries :
           /\ Edition2Named(visited[a].name) # {}
           /\ First(Edition2Named(visited[a].name)) # First(Named(visited[a].name))
    /\ item_counts # <<>>

\* C8 as stated: every declared expansion with a nonzero count is either
\* aggregated or in the unresolved list, never both, and it is in the
\* unresolved list exactly if no catalog expansion has its name.
CexC8 ==
    YasbDone =>
        \A i \in OwnedEntries :
            visited[i].name \in Range(missing_expansions) <=> Named(visited[i].name) = {}

\* C8, amended: every declared expansion with a nonzero count is either
\* aggregated with its declared count (through the first edition 2 expansion
\* of its name) or once in the unresolved list, never both; it is in the
\* unresolved list exactly if no expansion of edition 2 has its name, whatever
\* expansions of another edition are called; the inventory is the singles
\* plus the aggregated entries and nothing else.
ThmC8 ==
    YasbDone =>
        /\ \A i \in OwnedEntries :
               /\ visited[i].name \in Range(missing_expansions)
                      <=> Edition2Named(visited[i].name) = {}
               /\ Occurrences(missing_expansions, visited[i].name) =
                      (IF Edition2Named(visited[i].name) = {} THEN 1 ELSE 0)
        /\ Len(missing_expansions) =
               Cardinality({ i \in OwnedEntries : Edition2Named(visited[i].name) = {} })
        /\ \A item \in AllItems :
               GetOr(item_counts, item, 0) =
                   SinglesPart(item) + ExpansionsPart(OwnedEntries, item)
        /\ DOMAIN item_counts \subseteq AllItems

\* A declared expansion that is unresolved although an expansion (of
\* edition 1) has its name, beside one that was aggregated.
WitC8 ==
    /\ YasbDone
    /\ \E i, j \in OwnedEntries :
           /\ Edition2Named(visited[i].name) = {}
           /\ Named(visited[i].name) # {}
           /\ visited[i].name \in Range(missing_expansions)
           /\ Edition2Named(visited[j].name) # {}
    /\ item_counts # <<>>

\* The pairs of visited singles entries, both with a nonzero count, that
\* resolve to the same item: i is visited before j.
Colliding(i, j) ==
    /\ i \in DOMAIN visited /\ j \in DOMAIN visited
    /\ i < j
    /\ IsSingle(visited[i]) /\ IsSingle(visited[j])
    /\ Nonzero(visited[i]) /\ Nonzero(visited[j])
    /\ ResolvedItem(visited[i]) = ResolvedItem(visited[j])

\* C9 as stated: of two declared singles that resolve to the same item, the
\* first seen is kept with its count, the second is dropped and a diagnostic
\* naming it is printed.
CexC9 ==
    SinglesResolved =>
        \A i, j \in DOMAIN visited :
            Colliding(i, j) =>
                /\ ResolvedItem(visited[i]) \in DOMAIN item_counts
                /\ item_counts[ResolvedItem(visited[i])] = CountOf(visited[i])
                /\ visited[j].name \in Range(printed)

\* C9, amended: of two declared singles that resolve to the same item, if
\* some expansion lists the item the first seen is kept with its count (not
\* the sum, not the second's), the second is dropped and a diagnostic naming
\* it is printed; if no expansion lists the item neither is kept, both are
\* appended to missing_singles and nothing is printed.
ThmC9 ==
    SinglesResolved =>
        \A i, j \in DOMAIN visited :
            Colliding(i, j) =>
                LET item == ResolvedItem(visited[i])
                IN  IF Listed(item)
                    THEN /\ item \in DOMAIN item_counts
                         /\ item_counts[item] = CountOf(visited[i])
                         /\ printed = << visited[j].name >>
                    ELSE /\ item \notin DOMAIN item_counts
                         /\ Occurrences(missing_singles, item) = 2
                         /\ printed = <<>>

\* Two upgrades with different counts resolve to one listed item: the first
\* one's count is kept, the second is printed.
WitC9 ==
    /\ SinglesResolved
    /\ \E i, j \in DOMAIN visited :
           /\ Colliding(i, j)
           /\ Listed(ResolvedItem(visited[i]))
           /\ CountOf(visited[i]) # CountOf(visited[j])
           /\ item_counts[ResolvedItem(visited[i])] = CountOf(visited[i])
           /\ printed = << visited[j].name >>

\* The items the declared singles with a nonzero count resolve to.
DeclaredItems == { item \in AllItems : NamingSingles(item) # {} }

\* C10 as stated: every declared single with a nonzero count is in the
\* resolved singles map with the count of the first entry resolving to its
\* item, whether or not an expansion lists the item.
CexC10 ==
    SinglesResolved =>
        \A item \in DeclaredItems :
            /\ item \in DOMAIN item_counts
            /\ item_counts[item] = CountOf(visited[First(NamingSingles(item))])

\* C10, amended: a declared single with a nonzero count is in the resolved
\* singles map, with the count of the first entry resolving to its item,
\* exactly if some expansion of the argument lists the item; otherwise it is
\* left out and the item is appended to missing_singles.
ThmC10 ==
    SinglesResolved =>
        /\ DOMAIN item_counts = { item \in DeclaredItems : Listed(item) }
        /\ \A item \in DOMAIN item_counts :
               item_counts[item] = CountOf(visited[First(NamingSingles(item))])
        /\ Range(missing_singles) = { item \in DeclaredItems : ~ Listed(item) }
        /\ \A item \in DeclaredItems :
               Occurrences(missing_singles, item) =
                   (IF Listed(item) THEN 0 ELSE Cardinality(NamingSingles(item)))

\* Two declared singles, one listed by an expansion and kept, one listed by
\* none and reported.
WitC10 ==
    /\ SinglesResolved
    /\ Len(missing_singles) = 1
    /\ Cardinality(DOMAIN item_counts) = 1
    /\ \E i \in DOMAIN visited :
           /\ Nonzero(visited[i])
           /\ ~ Listed(ResolvedItem(visited[i]))
           /\ missing_singles = << ResolvedItem(visited[i]) >>

\* The entries of the declaration as the loops read them.
DeclaredEntries ==
    { [map |-> "expansions", name |-> e[1], c |-> e[2]] : e \in Entries(yasb.expansions) }
    \cup (IF yasb.singletons.some
          THEN UNION { { [map |-> map, name |-> e[1], c |-> e[2]] :
                           e \in Entries(yasb.singletons[map]) } :
                       map \in {"upgrade", "pilot", "ship"} }
          ELSE {})

\* The count strings of the model that are no u32: a letter, the empty string,
\* a negative number, 2^32, a digit followed by a letter, a digit after a
\* blank.
NotU32Strings ==
    { <<"x">>, <<>>, <<"-","1">>, <<"4","2","9","4","9","6","7","2","9","6">>,
      <<"1","x">>, <<" ","1">> }

IsU32(c) == c \notin NotU32Strings

YasbPanicked == yasb_pc = "panicked"

\* C11: a count string that is no u32, in a singles or an expansion entry, is
\* fatal: once the entry is read the call has panicked, nothing is returned
\* and the maps and lists built so far are gone; a call that returns has read
\* a u32 in every entry of the declaration, so no such entry is skipped or
\* turned into a diagnostic; and a call panics for no other reason.
ThmC11 ==
    /\ (\E i \in DOMAIN visited : ~ IsU32(visited[i].c)) => YasbPanicked
    /\ YasbPanicked =>
           /\ ~ IsU32(visited[Len(visited)].c)
           /\ \A i \in 1..(Len(visited) - 1) : IsU32(visited[i].c)
           /\ xws_collection.tag = "None"
           /\ item_counts = <<>>
           /\ missing_singles = <<>>
           /\ missing_expansions = <<>>
           /\ ~ ENABLED YasbNext
    /\ YasbDone =>
           /\ \A v \in DeclaredEntries : IsU32(v.c)
           /\ Range(visited) = DeclaredEntries

\* A listed single has been counted, then an expansion entry with a count
\* that is no number is read: the call panics and the count is gone.
WitC11 ==
    /\ YasbPanicked
    /\ Len(visited) = 2
    /\ IsSingle(visited[1]) /\ Nonzero(visited[1]) /\ Listed(ResolvedItem(visited[1]))
    /\ ~ IsSingle(visited[2]) /\ ~ IsU32(visited[2].c)
    /\ item_counts = <<>>
    /\ xws_collection.tag = "None"

\* 'exp_search is running or over.
InExpSearch == yasb_pc \in {"expansions", "done"}

\* C17 as stated: at every point of the expansion search, a declared name
\* that has been read (with a nonzero count) is resolved - not in the
\* unresolved list - exactly if some catalog expansion has a name equal to
\* it character for character, with no further condition on the expansion.
CexC17 ==
    InExpSearch =>
        \A i \in OwnedEntries :
            visited[i].name \notin Range(missing_expansions)
                <=> (\E k \in DOMAIN yasb_expansions :
                         yasb_expansions[k].name = visited[i].name)

\* C17, amended: at every point of the expansion search, a declared name that
\* has been read (with a nonzero count) is resolved exactly if some catalog
\* expansion of edition 2 has a name equal to it character for character - no
\* canonicalization, no case folding - and then every item of the first such
\* expansion's contents is in item_counts; otherwise it is in the unresolved
\* list.
ThmC17 ==
    InExpSearch =>
        \A i \in OwnedEntries :
            LET hits == { k \in DOMAIN yasb_expansions :
                            /\ yasb_expansions[k].edition = 2
                            /\ Len(yasb_expansions[k].name) = Len(visited[i].name)
                            /\ \A n \in DOMAIN visited[i].name :
                                   yasb_expansions[k].name[n] = visited[i].name[n] }
            IN  /\ visited[i].name \notin Range(missing_expansions) <=> hits # {}
                /\ hits # {} =>
                       \A c \in Range(yasb_expansions[First(hits)].contents) :
                           c.item \in DOMAIN item_counts

\* The declaration names the expansion in both spellings; the catalog holds
\* the capitalised one only: that one is resolved, the other is reported.
WitC17 ==
    /\ YasbDone
    /\ { visited[i].name : i \in OwnedEntries } = { NameT70, NameT70Low }
    /\ \E k \in DOMAIN yasb_expansions :
           yasb_expansions[k].edition = 2 /\ yasb_expansions[k].name = NameT70
    /\ \A k \in DOMAIN yasb_expansions : yasb_expansions[k].name # NameT70Low
    /\ missing_expansions = << NameT70Low >>
    /\ item_counts # <<>>


\* The declared singles entries with a nonzero count that resolve to the
\* item, read from the declaration and not from the order of the visit.
DeclaredNaming(item) ==
    { e \in DeclaredEntries : IsSingle(e) /\ Nonzero(e) /\ ResolvedItem(e) = item }

\* The items the singles keys of the model resolve to.
SingleTargets == { ResolvedItems[k] : k \in DOMAIN ResolvedItems }

WitC30Other ==
    /\ SinglesResolved
    /\ Len(visited) = 2
    /\ Colliding(1, 2)
    /\ CountOf(visited[1]) = 1
    /\ CountOf(visited[2]) = 2
    /\ item_counts = [k \in {ResolvedItem(visited[1])} |-> 1]
-----------------------------------------------------------------------------
(* yasb2::to_canonical and yasb2::to_xws on their own *)

\* Longest name spelled from NameAlphabet.
MaxName == 3

\* Characters of each class to_canonical tells apart: ASCII upper and lower
\* case, a digit, '(', a blank, '-', and an upper and a lower case letter
\* outside ASCII.
NameAlphabet == {"A", "a", "1", "(", " ", "-", "U+00C9", "U+00E9"}

DisplayTieFo == <<"T","I","E","/","F","O"," ","F","i","g","h","t","e","r">>

DisplayTieFighter == <<"T","I","E"," ","F","i","g","h","t","e","r">>

DisplayAWing == <<"A","-","W","i","n","g">>

DisplayChewbaccaResistance == <<"C","h","e","w","b","a","c","c","a"," ","(","R","e","s","i","s","t","a","n","c","e",")">>

XwsTieFo == <<"t","i","e","f","o","f","i","g","h","t","e","r">>

XwsTieFoLegacy == <<"t","i","e","f","o","f","i","g","h","t","e","r","-","l","e","g","a","c","y","y","a","s","b">>

XwsChewbaccaResistance == <<"c","h","e","w","b","a","c","c","a","-","r","e","s","i","s","t","a","n","c","e">>

XwsChewbaccaPilot == <<"c","h","e","w","b","a","c","c","a","-","s","c","a","v","e","n","g","e","d","y","t","1","3","0","0">>

XwsChewbaccaCrew == <<"c","h","e","w","b","a","c","c","a","-","c","r","e","w">>

LegacySuffix == <<"-","l","e","g","a","c","y","y","a","s","b">>

XwsTieFighter == <<"t","i","e","f","i","g","h","t","e","r">>

XwsAWing == <<"a","w","i","n","g">>

\* A display name whose canonical form is the given override key: the part
\* after '-' in parentheses.
RECURSIVE DisplayOf(_)
DisplayOf(key) ==
    IF key = <<>> THEN <<>>
    ELSE IF Head(key) = "-" THEN <<" ", "(">> \o DisplayOf(Tail(key)) \o <<")">>
    ELSE <<Head(key)>> \o DisplayOf(Tail(key))

\* The name arguments: every string up to MaxName over NameAlphabet, the
\* display names the claims mention and one display name per override key.
Names ==
    SeqsUpTo(NameAlphabet, MaxName)
    \cup { DisplayTieFo, DisplayTieFighter, DisplayAWing, DisplayXWing,
           DisplayChewbaccaResistance, DisplayRey, DisplayHanSolo }
    \cup { DisplayOf(p[1]) : p \in PilotOverrides \cup UpgradeOverrides }

XwsInit ==
    /\ XlsIdle
    /\ MainIdle
    /\ LoadIdle
    /\ InvIdle
    /\ YasbIdle
    /\ RecIdle
    /\ FrIdle
    /\ xws_name \in Names
    /\ xws_typ \in ItemType
    /\ xws_canon = <<>>
    /\ xws_out = <<>>
    /\ xws_pc = "call"

\* to_canonical(name)
ToCanonicalCall ==
    /\ xws_pc = "call"
    /\ xws_canon' = to_canonical(xws_name)
    /\ xws_pc' = "canonical"
    /\ UNCHANGED <<xws_name, xws_typ, xws_out, load_vars, xls_vars, main_vars, inv_vars, yasb_vars,
                   rec_vars, fr_vars>>

\* to_xws(name, typ)
ToXwsCall ==
    /\ xws_pc = "canonical"
    /\ xws_out' = to_xws(xws_name, xws_typ)
    /\ xws_pc' = "done"
    /\ UNCHANGED <<xws_name, xws_typ, xws_canon, load_vars, xls_vars, main_vars, inv_vars, yasb_vars,
                   rec_vars, fr_vars>>

XwsNext ==
    \/ ToCanonicalCall
    \/ ToXwsCall

\* to_canonical and to_xws on every name and item type of the model.
SpecXws == XwsInit /\ [][XwsNext]_vars

-----------------------------------------------------------------------------
(* Claims about to_canonical and to_xws *)

Canonicalized == xws_pc \in {"canonical", "done"}

XwsDone == xws_pc = "done"

\* The characters canonicalization keeps: the alphanumeric ones and '('.
KeptChar(c) ==
    \/ c \in {"(", "U+00C9", "U+00E9"}
    \/ \E i \in 1..26 : c = UpperSeq[i] \/ c = LowerSeq[i]
    \/ c \in {"0","1","2","3","4","5","6","7","8","9"}

\* The lower case of an ASCII capital; any other character is itself.
LowerAscii(c) ==
    IF \E i \in 1..26 : c = UpperSeq[i]
    THEN LowerSeq[CHOOSE i \in 1..26 : c = UpperSeq[i]]
    ELSE c

\* The lower case of a capital, ASCII or not; any other character is itself.
LowerAny(c) == IF c = "U+00C9" THEN "U+00E9" ELSE LowerAscii(c)

\* C12 as stated: to_canonical returns the kept characters of the name in
\* order, '(' replaced by '-' and every other one lowercased, those outside
\* ASCII included.
CexC12 ==
    Canonicalized =>
        LET kept == SelectSeq(xws_name, KeptChar)
        IN  /\ Len(xws_canon) = Len(kept)
            /\ \A i \in DOMAIN kept :
                   xws_canon[i] = IF kept[i] = "(" THEN "-" ELSE LowerAny(kept[i])

\* C12, amended: to_canonical is total and returns the kept characters of the
\* name (alphanumeric or '(') in order, '(' replaced by '-' and every other
\* one lowercased if it is an ASCII capital; an alphanumeric character
\* outside ASCII is kept as it is, capital or not.
ThmC12 ==
    /\ xws_pc = "call" => ENABLED ToCanonicalCall
    /\ Canonicalized =>
           LET kept == SelectSeq(xws_name, KeptChar)
           IN  /\ Len(xws_canon) = Len(kept)
               /\ \A i \in DOMAIN kept :
                      xws_canon[i] = IF kept[i] = "(" THEN "-" ELSE LowerAscii(kept[i])

\* A name with a capital outside ASCII, a '(' and a character that is
\* dropped: two characters are left and the capital is among them.
WitC12 ==
    /\ Canonicalized
    /\ Len(xws_name) = 3
    /\ {"U+00C9", "("} \subseteq Range(xws_name)
    /\ Len(xws_canon) = 2
    /\ {"U+00C9", "-"} = Range(xws_canon)

\* C13: to_xws("TIE/FO Fighter", Ship) is exactly "tiefofighter-legacyyasb":
\* the literal display string gets its fixed id whatever canonicalization
\* would make of it.
CexC13 ==
    (XwsDone /\ xws_name = DisplayTieFo /\ xws_typ = "Ship") => xws_out = XwsTieFoLegacy

\* First-edition-era base names the claim lists.
LegacyBaseNames == { XwsXWing, XwsTieFighter, XwsAWing }

\* C14: for a name whose canonical form is one of the first-edition-era base
\* names, to_xws returns the canonical form with "-legacyyasb" appended if the
\* type is Ship, and without the suffix for any other type.
CexC14 ==
    (XwsDone /\ xws_canon \in LegacyBaseNames) =>
        IF xws_typ = "Ship"
        THEN xws_out = xws_canon \o LegacySuffix
        ELSE xws_out # xws_canon \o LegacySuffix

PilotKeys == { p[1] : p \in PilotOverrides }

UpgradeKeys == { p[1] : p \in UpgradeOverrides }

\* C15: to_xws looks the canonical name up in the table of the given type
\* only: a Pilot whose canonical name is a key of the Pilot table gets that
\* table's value, an Upgrade whose canonical name is a key of the Upgrade
\* table gets that one's, and every other (name, type) - always for Ship,
\* Obstacle and Damage - gets the canonical name unchanged; so
\* "Chewbacca (Resistance)" is "chewbacca-scavengedyt1300" as a Pilot,
\* "chewbacca-crew" as an Upgrade and "chewbacca-resistance" otherwise.
ThmC15 ==
    XwsDone =>
        /\ (xws_typ = "Pilot" /\ xws_canon \in PilotKeys) =>
               /\ <<xws_canon, xws_out>> \in PilotOverrides
               /\ \A p \in PilotOverrides : p[1] = xws_canon => p[2] = xws_out
        /\ (xws_typ = "Upgrade" /\ xws_canon \in UpgradeKeys) =>
               /\ <<xws_canon, xws_out>> \in UpgradeOverrides
               /\ \A p \in UpgradeOverrides : p[1] = xws_canon => p[2] = xws_out
        /\ (~ (xws_typ = "Pilot" /\ xws_canon \in PilotKeys)
              /\ ~ (xws_typ = "Upgrade" /\ xws_canon \in UpgradeKeys)) =>
               xws_out = xws_canon
        /\ xws_name = DisplayChewbaccaResistance =>
               /\ xws_canon = XwsChewbaccaResistance
               /\ xws_out = CASE xws_typ = "Pilot" -> XwsChewbaccaPilot
                              [] xws_typ = "Upgrade" -> XwsChewbaccaCrew
                              [] OTHER -> XwsChewbaccaResistance

\* "Chewbacca (Resistance)" resolved as an Upgrade.
WitC15 ==
    /\ XwsDone
    /\ xws_name = DisplayChewbaccaResistance
    /\ xws_typ = "Upgrade"
    /\ xws_out = XwsChewbaccaCrew


\* C28: to_canonical applied to its own result.  For a name without '(' the
\* result is a fixed point.  For a name with '(' the first application puts
\* a '-' in the result and the second application removes it, so the result
\* is not a fixed point; the second result itself is one.
ThmC28 ==
    Canonicalized =>
        LET again == to_canonical(xws_canon)
        IN  /\ "(" \notin Range(xws_name) => again = xws_canon
            /\ "(" \in Range(xws_name) =>
                   /\ "-" \in Range(xws_canon)
                   /\ "-" \notin Range(again)
                   /\ again # xws_canon
                   /\ again = SelectSeq(xws_canon, LAMBDA c : c # "-")
            /\ to_canonical(again) = again

\* A name with a '(' between two letters: the first result has three
\* characters, the second two.
WitC28 ==
    /\ Canonicalized
    /\ Len(xws_name) = 3
    /\ xws_name[2] = "("
    /\ Len(xws_canon) = 3
    /\ xws_canon[2] = "-"
    /\ Len(to_canonical(xws_canon)) = 2
-----------------------------------------------------------------------------
(* xwingdata2::Data and the records of lib.rs *)

\* Most entries in an inventory handed to Records::build.
MaxInv == 2

\* [&str]::join(sep)
RECURSIVE Join(_, _)
Join(strs, sep) ==
    IF strs = <<>> THEN <<>>
    ELSE IF Len(strs) = 1 THEN strs[1]
    ELSE strs[1] \o sep \o Join(Tail(strs), sep)

\* Option<T>
None == [some |-> FALSE]

Some(v) == [some |-> TRUE, value |-> v]

\* Iterator::find: the element at the smallest of the indices that satisfy
\* the test, if any.
FindFirst(xs, hits) ==
    IF hits = {} THEN None
    ELSE Some(xs[CHOOSE i \in hits : \A k \in hits : i <= k])

\* xwingdata2 structs
Faction(xws, name) == [xws |-> xws, name |-> name]

Pilot(name, xws, initiative) == [name |-> name, xws |-> xws, initiative |-> initiative]

Ship(name, xws, faction, pilots) ==
    [name |-> name, xws |-> xws, faction |-> faction, pilots |-> pilots]

\* Side: its slot kind (as {:?} prints it) and, as UpgradeRecord::build reads
\* it, its slots.
Side(type, slots) == [type |-> type, slots |-> slots]

Restrictions(factions, sizes, ships, arcs, keywords, force_side) ==
    [factions |-> factions, sizes |-> sizes, ships |-> ships, arcs |-> arcs,
     keywords |-> keywords, force_side |-> force_side]

Upgrade(name, xws, sides, restrictions) ==
    [name |-> name, xws |-> xws, sides |-> sides, restrictions |-> restrictions]

Data(ships, upgrades, factions) ==
    [ships |-> ships, upgrades |-> upgrades, factions |-> factions]

\* Data::get_pilot: the first ship, in list order, with a pilot of that xws,
\* and its first such pilot.
get_pilot(data, xws) ==
    LET ship == FindFirst(data.ships,
                          { i \in DOMAIN data.ships :
                              \E j \in DOMAIN data.ships[i].pilots :
                                  data.ships[i].pilots[j].xws = xws })
    IN  IF ship.some
        THEN Some([ship |-> ship.value,
                   pilot |-> FindFirst(ship.value.pilots,
                                       { j \in DOMAIN ship.value.pilots :
                                           ship.value.pilots[j].xws = xws }).value])
        ELSE None

\* Data::get_upgrade
get_upgrade(data, xws) ==
    FindFirst(data.upgrades, { i \in DOMAIN data.upgrades : data.upgrades[i].xws = xws })

\* Data::get_ship
get_ship(data, xws) ==
    FindFirst(data.ships, { i \in DOMAIN data.ships : data.ships[i].xws = xws })

\* Data::get_faction
get_faction(data, xws) ==
    FindFirst(data.factions, { i \in DOMAIN data.factions : data.factions[i].xws = xws })

\* Data::get_ship_model, as ShipRecord::build uses it: the name, xws and
\* faction of the ship card with that xws, or None.
get_ship_model(data, xws) ==
    LET s == get_ship(data, xws)
    IN  IF s.some
        THEN Some([name |-> s.value.name, xws |-> s.value.xws, faction |-> s.value.faction])
        ELSE None

\* Data::get_ship_name, as format_restriction uses it.
get_ship_name(data, xws) ==
    LET s == get_ship(data, xws)
    IN  IF s.some THEN Some(s.value.name) ELSE None

\* As format_sources, with a separator after every segment instead of join.
RECURSIVE format_sources_trailing(_, _)
format_sources_trailing(cat, sources) ==
    IF sources = <<>> THEN <<>>
    ELSE LET s == Head(sources)
             known == s.item.xws \in DOMAIN cat.expansions
             name == IF known THEN cat.expansions[s.item.xws].name ELSE <<"u","n","k","n","o","w","n">>
             wave == IF known THEN cat.expansions[s.item.xws].wave ELSE 99
         IN  name \o <<":">> \o s.item.xws \o <<":","w","a","v","e">> \o Decimal(wave)
                 \o <<":">> \o Decimal(s.count) \o <<",">>
                 \o format_sources_trailing(cat, Tail(sources))

\* The loop of format_sources: one formatted string per source.
RECURSIVE SourceStrs(_, _)
SourceStrs(cat, sources) ==
    IF sources = <<>> THEN <<>>
    ELSE LET s == Head(sources)
             known == s.item.xws \in DOMAIN cat.expansions
             name == IF known THEN cat.expansions[s.item.xws].name ELSE <<"u","n","k","n","o","w","n">>
             wave == IF known THEN cat.expansions[s.item.xws].wave ELSE 99
         IN  << name \o <<":">> \o s.item.xws \o <<":","w","a","v","e">> \o Decimal(wave)
                    \o <<":">> \o Decimal(s.count) >>
                 \o SourceStrs(cat, Tail(sources))

\* format_sources
format_sources(cat, sources) == Join(SourceStrs(cat, sources), <<",">>)

\* catalog.sources.get(&Item { type, xws }).map(|s| format_sources(catalog, s))
SourcesField(cat, item) ==
    IF item \in DOMAIN cat.sources
    THEN Some(format_sources(cat, cat.sources[item]))
    ELSE None

\* .unwrap_or("".to_string()) on that, as the sheets write it.
SourcesCell(cat, item) ==
    LET f == SourcesField(cat, item)
    IN  IF f.some THEN f.value ELSE <<>>

\* xwingdata2::Restriction
RestrictionKinds == {"Factions", "Sizes", "Ships", "Arcs", "Keywords", "ForceSide"}

\* As ClauseValues, but a faction or ship the data does not know is left out.
ClauseValuesKnownOnly(data, r, kind) ==
    CASE kind = "Factions" ->
             LET known == SelectSeq(r.factions, LAMBDA x : get_faction(data, x).some)
             IN  [i \in DOMAIN known |-> get_faction(data, known[i]).value.name]
      [] kind = "Ships" ->
             LET known == SelectSeq(r.ships, LAMBDA x : get_ship_name(data, x).some)
             IN  [i \in DOMAIN known |-> get_ship_name(data, known[i]).value]
      [] kind = "Sizes" -> r.sizes
      [] kind = "Arcs" -> r.arcs
      [] kind = "Keywords" -> r.keywords
      [] kind = "ForceSide" -> r.force_side

\* One arm of the match in format_restriction: the strings a restriction
\* contributes for the kind, factions and ships by display name where the
\* data knows them.
ClauseValues(data, r, kind) ==
    CASE kind = "Factions" ->
             [i \in DOMAIN r.factions |->
                 LET f == get_faction(data, r.factions[i])
                 IN  IF f.some THEN f.value.name ELSE r.factions[i]]
      [] kind = "Ships" ->
             [i \in DOMAIN r.ships |->
                 LET n == get_ship_name(data, r.ships[i])
                 IN  IF n.some THEN n.value ELSE r.ships[i]]
      [] kind = "Sizes" -> r.sizes
      [] kind = "Arcs" -> r.arcs
      [] kind = "Keywords" -> r.keywords
      [] kind = "ForceSide" -> r.force_side

\* As PushClause, but each restriction is joined on its own and pushed as one
\* string.
PushClauseJoined(tmp, data, r, kind) ==
    Append(tmp, Join(ClauseValues(data, r, kind), <<",">>))

\* One round of the loop of format_restriction: every value is pushed to tmp.
PushClause(tmp, data, r, kind) == tmp \o ClauseValues(data, r, kind)

RECURSIVE PushClauses(_, _, _, _)
PushClauses(tmp, data, restrictions, kind) ==
    IF restrictions = <<>> THEN tmp
    ELSE PushClauses(PushClause(tmp, data, Head(restrictions), kind), data,
                     Tail(restrictions), kind)

\* format_restriction
format_restriction(data, restrictions, kind) ==
    Join(PushClauses(<<>>, data, restrictions, kind), <<",">>)

\* ShipRecord::build
ShipRecord_build(xws, count, data, cat) ==
    LET s == get_ship_model(data, xws)
    IN  IF ~ s.some THEN Err("NotFound", xws)
        ELSE Ok([name |-> s.value.name,
                 xws |-> s.value.xws,
                 factions |-> s.value.faction,
                 sources |-> SourcesField(cat, Item("Ship", xws)),
                 count |-> count])

\* PilotRecord::build
PilotRecord_build(xws, count, data, cat) ==
    LET sp == get_pilot(data, xws)
    IN  IF ~ sp.some THEN Err("NotFound", xws)
        ELSE LET s == sp.value.ship
                 p == sp.value.pilot
                 f == get_faction(data, s.faction)
             IN  Ok([faction |-> IF f.some THEN f.value.name ELSE s.faction,
                     ship |-> s.name,
                     name |-> p.name,
                     xws |-> p.xws,
                     initiative |-> p.initiative,
                     count |-> count,
                     sources |-> SourcesField(cat, Item("Pilot", xws))])

\* UpgradeRecord::build
UpgradeRecord_build(xws, count, data, cat) ==
    LET u == get_upgrade(data, xws)
    IN  IF ~ u.some THEN Err("NotFound", xws)
        ELSE LET v == u.value
             IN  Ok([name |-> v.name,
                     xws |-> v.xws,
                     count |-> count,
                     type |-> IF v.sides # <<>> THEN v.sides[1].type ELSE <<"u","n","k","n","o","w","n">>,
                     slots |-> IF v.sides # <<>>
                               THEN Join(v.sides[1].slots, <<",">>)
                               ELSE <<"u","n","k","n","o","w","n">>,
                     faction_restriction |->
                         format_restriction(data, v.restrictions, "Factions"),
                     size_restriction |-> format_restriction(data, v.restrictions, "Sizes"),
                     ship_restriction |-> format_restriction(data, v.restrictions, "Ships"),
                     keyword_restriction |->
                         format_restriction(data, v.restrictions, "Keywords"),
                     force_side_restriction |->
                         format_restriction(data, v.restrictions, "ForceSide"),
                     arc_restriction |-> format_restriction(data, v.restrictions, "Arcs"),
                     sources |-> SourcesField(cat, Item("Upgrade", xws))])

\* Records and the println! lines.
RecState(recs, lines) == [records |-> recs, printed |-> lines]

\* As RecordsEntry, but the first card that is not found ends the loop's
\* pushes: nothing after it is recorded.
RecordsEntryStopsAtMiss(st, item, count, data, cat) ==
    IF st.printed # <<>> THEN st
    ELSE
    CASE item.type = "Ship" ->
             LET r == ShipRecord_build(item.xws, count, data, cat)
             IN  IF r.tag = "Ok"
                 THEN RecState([st.records EXCEPT !.ships = Append(@, r.value)], st.printed)
                 ELSE RecState(st.records, Append(st.printed, <<"s","h","i","p"," ","n","o","t"," ","f","o","u","n","d",":"," ">> \o item.xws))
      [] item.type = "Pilot" ->
             LET r == PilotRecord_build(item.xws, count, data, cat)
             IN  IF r.tag = "Ok"
                 THEN RecState([st.records EXCEPT !.pilots = Append(@, r.value)], st.printed)
                 ELSE RecState(st.records, Append(st.printed, <<"p","i","l","o","t"," ","n","o","t"," ","f","o","u","n","d",":"," ">> \o item.xws))
      [] item.type = "Upgrade" ->
             LET r == UpgradeRecord_build(item.xws, count, data, cat)
             IN  IF r.tag = "Ok"
                 THEN RecState([st.records EXCEPT !.upgrades = Append(@, r.value)], st.printed)
                 ELSE RecState(st.records,
                               Append(st.printed, <<"U","p","g","r","a","d","e"," ","n","o","t"," ","f","o","u","n","d",":"," ">> \o item.xws))
      [] OTHER -> st

\* One round of the loop of Records::build (and of main's assemble_records,
\* which is the same code).
RecordsEntry(st, item, count, data, cat) ==
    CASE item.type = "Ship" ->
             LET r == ShipRecord_build(item.xws, count, data, cat)
             IN  IF r.tag = "Ok"
                 THEN RecState([st.records EXCEPT !.ships = Append(@, r.value)], st.printed)
                 ELSE RecState(st.records, Append(st.printed, <<"s","h","i","p"," ","n","o","t"," ","f","o","u","n","d",":"," ">> \o item.xws))
      [] item.type = "Pilot" ->
             LET r == PilotRecord_build(item.xws, count, data, cat)
             IN  IF r.tag = "Ok"
                 THEN RecState([st.records EXCEPT !.pilots = Append(@, r.value)], st.printed)
                 ELSE RecState(st.records, Append(st.printed, <<"p","i","l","o","t"," ","n","o","t"," ","f","o","u","n","d",":"," ">> \o item.xws))
      [] item.type = "Upgrade" ->
             LET r == UpgradeRecord_build(item.xws, count, data, cat)
             IN  IF r.tag = "Ok"
                 THEN RecState([st.records EXCEPT !.upgrades = Append(@, r.value)], st.printed)
                 ELSE RecState(st.records,
                               Append(st.printed, <<"U","p","g","r","a","d","e"," ","n","o","t"," ","f","o","u","n","d",":"," ">> \o item.xws))
      [] OTHER -> st

\* Ord of ItemType: the order of the enum's variants.
TypeOrder == <<"Ship", "Obstacle", "Pilot", "Upgrade", "Damage">>

TypeRank(typ) == CHOOSE i \in DOMAIN TypeOrder : TypeOrder[i] = typ

\* Ord of Item (derived): by type, then by xws.
ItemLess(a, b) ==
    \/ TypeRank(a.type) < TypeRank(b.type)
    \/ a.type = b.type /\ StrLess(a.xws, b.xws)

\* The first key of a BTreeMap<Item, _> among S.
FirstItem(S) == CHOOSE x \in S : \A y \in S \ {x} : ItemLess(x, y)

\* Cards of the data files
FactionRebel == Faction(<<"r","e","b","e","l","a","l","l","i","a","n","c","e">>, <<"R","e","b","e","l"," ","A","l","l","i","a","n","c","e">>)

ShipCardXWing ==
    Ship(<<"T","-","6","5"," ","X","-","w","i","n","g">>, XwsXWing, <<"r","e","b","e","l","a","l","l","i","a","n","c","e">>, << Pilot(<<"H","a","n"," ","S","o","l","o">>, XwsHanSolo, 6) >>)

ShipCardFalcon ==
    Ship(<<"Y","T","-","1","3","0","0">>, <<"y","t","1","3","0","0">>, <<"s","c","u","m","a","n","d","v","i","l","l","a","i","n","y">>,
         << Pilot(<<"H","a","n"," ","S","o","l","o"," ","(","S","c","u","m",")">>, XwsHanSolo, 6) >>)

UpgradeCardHanSolo ==
    Upgrade(<<"H","a","n"," ","S","o","l","o">>, XwsHanSolo, << Side(<<"C","r","e","w">>, << <<"C","r","e","w">> >>) >>,
            << Restrictions(<< <<"r","e","b","e","l","a","l","l","i","a","n","c","e">> >>, <<>>, <<>>, <<>>, <<>>, <<>>),
               Restrictions(<<>>, << <<"S","m","a","l","l">> >>, << XwsXWing >>, <<>>, <<>>, <<>>) >>)

UpgradeCardRey == Upgrade(<<"R","e","y">>, XwsReyGunner, <<>>, <<>>)

\* The data arguments: no ships, one ship, two ships that both list the
\* pilot; no upgrades or two; no factions or one.
Datas ==
    { Data(s, u, f) :
        s \in { <<>>, << ShipCardXWing >>, << ShipCardFalcon, ShipCardXWing >> },
        u \in { <<>>, << UpgradeCardHanSolo, UpgradeCardRey >> },
        f \in { <<>>, << FactionRebel >> } }

ObstacleRock == Item("Obstacle", <<"c","o","r","e","a","s","t","e","r","o","i","d","0">>)

DamageHit == Item("Damage", <<"d","i","r","e","c","t","h","i","t">>)

\* The items an inventory may hold.
RecItems == AllItems \cup { ObstacleRock, DamageHit }

Inventories == MapsUpTo(RecItems, 1..MaxCount, MaxInv)

\* The catalog arguments: loaded from no expansion, from one, and from two
\* that share items.
RecCatalogs ==
    { CatalogOf(<<>>) }
    \cup { CatalogOf(<< Expansion(SkuCore, p[1], p[2], p[3]) >>) : p \in Products }
    \cup { CatalogOf(<< Expansion(SkuCore, NameCore, 0, ContentsPair),
                        Expansion(SkuT70, NameT70, 1, ContentsFour) >>) }

RecInit ==
    /\ XlsIdle
    /\ MainIdle
    /\ LoadIdle
    /\ InvIdle
    /\ YasbIdle
    /\ XwsIdle
    /\ FrIdle
    /\ rec_inventory \in Inventories
    /\ rec_data \in Datas
    /\ rec_catalog \in RecCatalogs
    /\ rec_iter = {}
    /\ records = [ships |-> <<>>, pilots |-> <<>>, upgrades |-> <<>>]
    /\ rec_printed = <<>>
    /\ rec_pc = "call"

rec_args == <<rec_inventory, rec_data, rec_catalog>>

\* let mut records = Records::default();
RecordsCall ==
    /\ rec_pc = "call"
    /\ records' = [ships |-> <<>>, pilots |-> <<>>, upgrades |-> <<>>]
    /\ rec_iter' = DOMAIN rec_inventory
    /\ rec_pc' = "loop"
    /\ UNCHANGED <<rec_args, rec_printed, load_vars, xls_vars, main_vars, inv_vars, yasb_vars, xws_vars, fr_vars>>

\* One round of `for (item, count) in inventory`, in key order.
RecordsLoop ==
    /\ rec_pc = "loop"
    /\ rec_iter # {}
    /\ LET item == FirstItem(rec_iter)
           st == RecordsEntry(RecState(records, rec_printed), item, rec_inventory[item],
                              rec_data, rec_catalog)
       IN  /\ records' = st.records
           /\ rec_printed' = st.printed
           /\ rec_iter' = rec_iter \ {item}
    /\ UNCHANGED <<rec_args, rec_pc, load_vars, xls_vars, main_vars, inv_vars, yasb_vars, xws_vars, fr_vars>>

\* records
RecordsReturn ==
    /\ rec_pc = "loop"
    /\ rec_iter = {}
    /\ rec_pc' = "done"
    /\ UNCHANGED <<rec_args, rec_iter, records, rec_printed, load_vars, xls_vars, main_vars, inv_vars,
                   yasb_vars, xws_vars, fr_vars>>

RecNext ==
    \/ RecordsCall
    \/ RecordsLoop
    \/ RecordsReturn

\* Records::build on every inventory, data and catalog of the model.
SpecRec == RecInit /\ [][RecNext]_vars

-----------------------------------------------------------------------------
(* Claims about Records::build and format_sources *)

RecDone == rec_pc = "done"

\* The card data holds a card of the item's kind with the item's xws id.
CardFound(item) ==
    CASE item.type = "Ship" ->
             \E i \in DOMAIN rec_data.ships : rec_data.ships[i].xws = item.xws
      [] item.type = "Pilot" ->
             \E i \in DOMAIN rec_data.ships :
                 \E j \in DOMAIN rec_data.ships[i].pilots :
                     rec_data.ships[i].pilots[j].xws = item.xws
      [] item.type = "Upgrade" ->
             \E i \in DOMAIN rec_data.upgrades : rec_data.upgrades[i].xws = item.xws
      [] OTHER -> FALSE

\* The inventory entries of a type.
EntriesOfType(typ) == { item \in DOMAIN rec_inventory : item.type = typ }

\* The list holds exactly one record per found entry of the type, with the
\* entry's xws id and count, and no other record.
OneRecordEach(recs, typ) ==
    /\ Len(recs) = Cardinality({ item \in EntriesOfType(typ) : CardFound(item) })
    /\ \A item \in EntriesOfType(typ) :
           Cardinality({ i \in DOMAIN recs : recs[i].xws = item.xws }) =
               (IF CardFound(item) THEN 1 ELSE 0)
    /\ \A i \in DOMAIN recs :
           \E item \in EntriesOfType(typ) :
               /\ CardFound(item)
               /\ recs[i].xws = item.xws
               /\ recs[i].count = rec_inventory[item]

\* C18: Records::build returns for every inventory: one Ship, Pilot or
\* Upgrade record per inventory entry of that kind whose id the card data
\* holds, with the entry's count; an entry whose id is not found gives no
\* record, is reported by one printed line and does not keep the other entries
\* from being recorded; Obstacle and Damage entries give no record.
ThmC18 ==
    /\ rec_pc \in {"call", "loop"} => ENABLED RecNext
    /\ RecDone =>
           /\ OneRecordEach(records.ships, "Ship")
           /\ OneRecordEach(records.pilots, "Pilot")
           /\ OneRecordEach(records.upgrades, "Upgrade")
           /\ Len(rec_printed) =
                  Cardinality({ item \in DOMAIN rec_inventory :
                                  item.type \in {"Ship", "Pilot", "Upgrade"}
                                  /\ ~ CardFound(item) })

\* The first entry in key order is not found, a later one is: one line is
\* printed and the later entry has its record.
WitC18 ==
    /\ RecDone
    /\ \E a, b \in DOMAIN rec_inventory :
           /\ ItemLess(a, b)
           /\ a.type \in {"Ship", "Pilot", "Upgrade"}
           /\ ~ CardFound(a)
           /\ CardFound(b)
    /\ Len(rec_printed) = 1
    /\ Len(records.ships) + Len(records.pilots) + Len(records.upgrades) = 1

\* Every record built, with the item it was built for.
BuiltRecords ==
    { [item |-> Item("Ship", records.ships[i].xws), sources |-> records.ships[i].sources] :
        i \in DOMAIN records.ships }
    \cup { [item |-> Item("Pilot", records.pilots[i].xws),
            sources |-> records.pilots[i].sources] : i \in DOMAIN records.pilots }
    \cup { [item |-> Item("Upgrade", records.upgrades[i].xws),
            sources |-> records.upgrades[i].sources] : i \in DOMAIN records.upgrades }

\* A number below ten as text.
DigitText(n) ==
    CASE n = 0 -> <<"0">> [] n = 1 -> <<"1">> [] n = 2 -> <<"2">> [] n = 3 -> <<"3">>
      [] n = 4 -> <<"4">> [] n = 5 -> <<"5">> [] n = 6 -> <<"6">> [] n = 7 -> <<"7">>
      [] n = 8 -> <<"8">> [] n = 9 -> <<"9">>

\* "<expansionName>:<sku>:wave<wave>:<perCopyCount>" for a source, name and
\* wave being those of the catalog expansion with the source's sku.
Segment(s) ==
    LET e == rec_catalog.expansions[s.item.xws]
    IN  e.name \o <<":">> \o e.sku \o <<":","w","a","v","e">> \o DigitText(e.wave) \o <<":">> \o DigitText(s.count)

\* The segments of the first n sources, a comma before each but the first.
RECURSIVE Provenance(_, _)
Provenance(sources, n) ==
    IF n = 0 THEN <<>>
    ELSE Provenance(sources, n - 1)
             \o (IF n = 1 THEN <<>> ELSE <<",">>) \o Segment(sources[n])

\* C19: the sources field of every record built for an item with sources
\* s1..sn in catalog.sources is the n segments
\* "<expansionName>:<sku>:wave<wave>:<perCopyCount>" in source order, a single
\* comma between two segments and none before the first or after the last;
\* the record of an item without sources has no sources field, and the
\* sheet cell of such an item is the empty string.
ThmC19 ==
    RecDone =>
        /\ \A r \in BuiltRecords :
               IF r.item \in DOMAIN rec_catalog.sources
               THEN LET srcs == rec_catalog.sources[r.item]
                    IN  /\ r.sources.some
                        /\ r.sources.value = Provenance(srcs, Len(srcs))
                        /\ Head(r.sources.value) # ","
                        /\ r.sources.value[Len(r.sources.value)] # ","
                        /\ Cardinality({ i \in DOMAIN r.sources.value :
                                           r.sources.value[i] = "," }) = Len(srcs) - 1
               ELSE r.sources = None
        /\ \A item \in DOMAIN rec_inventory :
               SourcesCell(rec_catalog, item) =
                   (IF item \in DOMAIN rec_catalog.sources
                    THEN Provenance(rec_catalog.sources[item], Len(rec_catalog.sources[item]))
                    ELSE <<>>)

\* One record with two sources joined by a comma and one record of an item
\* no expansion lists.
WitC19 ==
    /\ RecDone
    /\ \E r, q \in BuiltRecords :
           /\ r.sources.some
           /\ Len(rec_catalog.sources[r.item]) = 2
           /\ "," \in Range(r.sources.value)
           /\ q.sources = None

-----------------------------------------------------------------------------
(* format_restriction on its own *)

\* Longest restrictions list handed to format_restriction.
MaxClauses == 2

\* Restrictions of the upgrade files: nothing in any category; one value in
\* each; two values in each, the second faction and ship unknown to the
\* data; an empty string in each; values in every other category only.
ClauseNone == Restrictions(<<>>, <<>>, <<>>, <<>>, <<>>, <<>>)

ClauseOne ==
    Restrictions(<< <<"r","e","b","e","l","a","l","l","i","a","n","c","e">> >>, << <<"S","m","a","l","l">> >>, << XwsXWing >>,
                 << <<"F","r","o","n","t"," ","A","r","c">> >>, << <<"T","I","E">> >>, << <<"l","i","g","h","t">> >>)

ClauseTwo ==
    Restrictions(<< <<"r","e","b","e","l","a","l","l","i","a","n","c","e">>, <<"r","e","s","i","s","t","a","n","c","e">> >>, << <<"S","m","a","l","l">>, <<"M","e","d","i","u","m">> >>,
                 << XwsXWing, <<"y","w","i","n","g">> >>, << <<"F","r","o","n","t"," ","A","r","c">>, <<"R","e","a","r"," ","A","r","c">> >>,
                 << <<"T","I","E">>, <<"D","r","o","i","d">> >>, << <<"l","i","g","h","t">>, <<"d","a","r","k">> >>)

ClauseBlank == Restrictions(<< <<>> >>, << <<>> >>, << <<>> >>, << <<>> >>, << <<>> >>, << <<>> >>)

ClauseSome ==
    Restrictions(<< <<"r","e","s","i","s","t","a","n","c","e">> >>, <<>>, << <<"y","w","i","n","g">> >>, <<>>, << <<"D","r","o","i","d">> >>, <<>>)

Clauses == { ClauseNone, ClauseOne, ClauseTwo, ClauseBlank, ClauseSome }

\* The data arguments: nothing known, or one ship and one faction known.
FrDatas == { Data(<<>>, <<>>, <<>>), Data(<< ShipCardXWing >>, <<>>, << FactionRebel >>) }

FrInit ==
    /\ XlsIdle
    /\ MainIdle
    /\ LoadIdle
    /\ InvIdle
    /\ YasbIdle
    /\ XwsIdle
    /\ RecIdle
    /\ fr_data \in FrDatas
    /\ fr_restrictions \in SeqsUpTo(Clauses, MaxClauses)
    /\ fr_kind \in RestrictionKinds
    /\ fr_next = 0
    /\ fr_tmp = <<>>
    /\ fr_out = <<>>
    /\ fr_pc = "call"

fr_args == <<fr_data, fr_restrictions, fr_kind>>

\* let mut tmp: Vec<&str> = vec![];
FrCall ==
    /\ fr_pc = "call"
    /\ fr_tmp' = <<>>
    /\ fr_next' = 1
    /\ fr_pc' = "loop"
    /\ UNCHANGED <<fr_args, fr_out, load_vars, xls_vars, main_vars, inv_vars, yasb_vars, xws_vars, rec_vars>>

\* One round of `for r in restrictions`.
FrLoop ==
    /\ fr_pc = "loop"
    /\ fr_next <= Len(fr_restrictions)
    /\ fr_tmp' = PushClause(fr_tmp, fr_data, fr_restrictions[fr_next], fr_kind)
    /\ fr_next' = fr_next + 1
    /\ UNCHANGED <<fr_args, fr_out, fr_pc, load_vars, xls_vars, main_vars, inv_vars, yasb_vars, xws_vars,
                   rec_vars>>

\* tmp.join(",")
FrReturn ==
    /\ fr_pc = "loop"
    /\ fr_next > Len(fr_restrictions)
    /\ fr_out' = Join(fr_tmp, <<",">>)
    /\ fr_pc' = "done"
    /\ UNCHANGED <<fr_args, fr_next, fr_tmp, load_vars, xls_vars, main_vars, inv_vars, yasb_vars, xws_vars,
                   rec_vars>>

FrNext ==
    \/ FrCall
    \/ FrLoop
    \/ FrReturn

\* format_restriction on every restrictions list, kind and data of the model.
SpecFr == FrInit /\ [][FrNext]_vars

-----------------------------------------------------------------------------
(* Claims about format_restriction *)

FrDone == fr_pc = "done"

\* The sub-list of a clause for the kind.
SubList(r) ==
    CASE fr_kind = "Factions" -> r.factions
      [] fr_kind = "Sizes" -> r.sizes
      [] fr_kind = "Ships" -> r.ships
      [] fr_kind = "Arcs" -> r.arcs
      [] fr_kind = "Keywords" -> r.keywords
      [] fr_kind = "ForceSide" -> r.force_side

\* A value as it is displayed: the known faction and the known ship by their
\* names, anything else verbatim.
Displayed(v) ==
    IF fr_kind = "Factions" /\ v = <<"r","e","b","e","l","a","l","l","i","a","n","c","e">> /\ fr_data.factions # <<>>
        THEN <<"R","e","b","e","l"," ","A","l","l","i","a","n","c","e">>
    ELSE IF fr_kind = "Ships" /\ v = XwsXWing /\ fr_data.ships # <<>>
        THEN <<"T","-","6","5"," ","X","-","w","i","n","g">>
    ELSE v

\* The displayed values of the first n clauses, in clause order.
RECURSIVE ValuesUpTo(_)
ValuesUpTo(n) ==
    IF n = 0 THEN <<>>
    ELSE ValuesUpTo(n - 1)
             \o [i \in DOMAIN SubList(fr_restrictions[n]) |->
                     Displayed(SubList(fr_restrictions[n])[i])]

\* The first n of the values, a comma before each but the first.
RECURSIVE CommaJoined(_, _)
CommaJoined(vals, n) ==
    IF n = 0 THEN <<>>
    ELSE CommaJoined(vals, n - 1) \o (IF n = 1 THEN <<>> ELSE <<",">>) \o vals[n]

\* The string has no comma at either end and no two commas in a row.
NoStrayComma(s) ==
    /\ s # <<>> => Head(s) # "," /\ s[Len(s)] # ","
    /\ \A i \in 1..(Len(s) - 1) : ~ (s[i] = "," /\ s[i + 1] = ",")

\* C20 as stated: for any restrictions list and kind the string is the
\* values of the kind from all clauses, in clause order, joined by single
\* commas; it never starts or ends with a comma, never has two adjacent
\* commas, and is empty when every clause is empty for the kind.
CexC20 ==
    FrDone =>
        LET vals == ValuesUpTo(Len(fr_restrictions))
        IN  /\ fr_out = CommaJoined(vals, Len(vals))
            /\ NoStrayComma(fr_out)
            /\ vals = <<>> => fr_out = <<>>

\* C20, amended: for any restrictions list and kind the string is the values
\* of the kind from all clauses, in clause order, joined by single commas, a
\* clause whose sub-list is empty contributing nothing; it is empty when
\* every clause is empty for the kind; and if every value is a non-empty
\* string without a comma it never starts or ends with a comma, never has two
\* adjacent commas and holds one comma less than there are values.
ThmC20 ==
    FrDone =>
        LET vals == ValuesUpTo(Len(fr_restrictions))
        IN  /\ fr_out = CommaJoined(vals, Len(vals))
            /\ vals = <<>> => fr_out = <<>>
            /\ (\A i \in DOMAIN vals : vals[i] # <<>> /\ "," \notin Range(vals[i])) =>
                   /\ NoStrayComma(fr_out)
                   /\ vals # <<>> =>
                          Cardinality({ i \in DOMAIN fr_out : fr_out[i] = "," }) = Len(vals) - 1

\* A clause that is empty for the kind, then one with two values: the string
\* is the two values with the one comma between them.
WitC20 ==
    /\ FrDone
    /\ fr_kind = "Sizes"
    /\ fr_restrictions = << ClauseSome, ClauseTwo >>
    /\ fr_out = <<"S","m","a","l","l",",","M","e","d","i","u","m">>


\* The raw values of the kind in the first n clauses, in clause order.
RECURSIVE RawUpTo(_)
RawUpTo(n) ==
    IF n = 0 THEN <<>> ELSE RawUpTo(n - 1) \o SubList(fr_restrictions[n])

\* The name the data gives the id: of a faction for the kind Factions, of a
\* ship for the kind Ships; the empty set if the data has no such card.
NamesFor(id) ==
    IF fr_kind = "Factions"
    THEN { fr_data.factions[i].name :
               i \in { i \in DOMAIN fr_data.factions : fr_data.factions[i].xws = id } }
    ELSE { fr_data.ships[i].name :
               i \in { i \in DOMAIN fr_data.ships : fr_data.ships[i].xws = id } }

\* C25: every faction id and every ship id of the clauses is rendered as the
\* name the data gives for it, or as the id itself if the data has no such
\* faction or ship; a size, arc, keyword or force side is rendered as it is;
\* there are as many rendered values as values in the clauses, in their order.
ThmC25 ==
    FrDone =>
        LET raw == RawUpTo(Len(fr_restrictions))
        IN  /\ Len(fr_tmp) = Len(raw)
            /\ \A k \in DOMAIN raw :
                   IF fr_kind \in {"Factions", "Ships"}
                   THEN IF NamesFor(raw[k]) = {}
                        THEN fr_tmp[k] = raw[k]
                        ELSE fr_tmp[k] \in NamesFor(raw[k])
                   ELSE fr_tmp[k] = raw[k]
            /\ fr_out = Join(fr_tmp, <<",">>)

\* Two factions, the first known to the data and the second not: the name
\* of the first, the id of the second.
WitC25 ==
    /\ FrDone
    /\ fr_kind = "Factions"
    /\ fr_data.factions # <<>>
    /\ fr_restrictions = << ClauseTwo >>
    /\ fr_tmp = << <<"R","e","b","e","l"," ","A","l","l","i","a","n","c","e">>, <<"r","e","s","i","s","t","a","n","c","e">> >>
-----------------------------------------------------------------------------
(* Item identity: Catalog::load, to_xws_collection and Collection::inventory
   side by side, on inputs that hold a pilot and an upgrade of one xws id *)

\* Expansion lists whose contents name the pilot and the upgrade "hansolo".
ItemFiles ==
    { Readable(<< Expansion(SkuCore, NameCore, 0, ContentsFour),
                  Expansion(SkuT70, NameT70, 1, c) >>) :
        c \in {ContentsPair, ContentsTwice} }

\* Collections that own both expansions and both items as singles.
ItemCollections ==
    { [skus |-> [s \in CatalogSkus |-> IF s = SkuCore THEN a ELSE b],
       singles |-> [i \in {PilotHanSolo, UpgradeHanSolo} |->
                        IF i = PilotHanSolo THEN a ELSE b]] :
        a \in 1..MaxCount, b \in 1..MaxCount }

\* Declarations with "Han Solo" as an upgrade and as a pilot, a ship and an
\* expansion.
ItemDeclarations ==
    { Declaration([k \in { DeclKey("upgrade", DisplayHanSolo), DeclKey("pilot", DisplayHanSolo),
                           DeclKey("ship", DisplayXWing), DeclKey("expansions", NameT70) } |->
                       IF k.map = "upgrade" THEN Decimal(a)
                       ELSE IF k.map = "pilot" THEN Decimal(b)
                       ELSE <<"1">>], TRUE) :
        a \in 1..MaxCount, b \in 1..MaxCount }

ItemInit ==
    /\ XlsIdle
    /\ MainIdle
    /\ XwsIdle
    /\ RecIdle
    /\ FrIdle
    /\ file \in ItemFiles
    /\ list = <<>>
    /\ catalog = EmptyCatalog
    /\ load_pc = "read"
    /\ load_result = NoResult
    /\ inv_catalog \in { CatalogOf(f.list) : f \in ItemFiles }
    /\ collection \in ItemCollections
    /\ skus_iter = <<>>
    /\ inventory = <<>>
    /\ inv_missing = <<>>
    /\ inv_pc = "call"
    /\ yasb_expansions \in { << YasbExpansion(NameT70, 2, c) >> : c \in {ContentsFour, ContentsPair} }
    /\ yasb \in ItemDeclarations
    /\ yasb_pc = "call"
    /\ yasb_iter = {}
    /\ item_counts = <<>>
    /\ missing_singles = <<>>
    /\ missing_expansions = <<>>
    /\ printed = <<>>
    /\ visited = <<>>
    /\ xws_collection = [tag |-> "None"]

ItemNext ==
    \/ LoadNext
    \/ YasbNext
    \/ InvNext

\* The three operations, each on its own arguments, in any interleaving.
SpecItem == ItemInit /\ [][ItemNext]_vars

\* The items of one xws id and two types.
HanSoloItems == { [type |-> "Pilot", xws |-> XwsHanSolo], [type |-> "Upgrade", xws |-> XwsHanSolo] }

\* The content entries of the list that name the item: same type and same id.
RECURSIVE EntriesNaming(_, _)
EntriesNaming(contents, item) ==
    IF contents = <<>> THEN <<>>
    ELSE (IF Head(contents).item.type = item.type /\ Head(contents).item.xws = item.xws
          THEN << Head(contents) >> ELSE <<>>) \o EntriesNaming(Tail(contents), item)

RECURSIVE SumCounts(_)
SumCounts(entries) ==
    IF entries = <<>> THEN 0 ELSE Head(entries).count + SumCounts(Tail(entries))

\* The declared count of "Han Solo" in the singles map of the item's type.
DeclaredHanSolo(item) ==
    CountOf([c |-> yasb.singletons[IF item.type = "Pilot" THEN "pilot" ELSE "upgrade"][DisplayHanSolo]])

\* C23: the pilot "hansolo" and the upgrade "hansolo" are two keys wherever
\* items are keys.  In the sources of a loaded catalog each has its own list,
\* one entry per content entry of its own type.  In the resolved singles
\* each listed one has its own declared count and neither is reported as a
\* duplicate of the other.  In the aggregated counts of to_xws_collection and
\* in the Inventory each has its own singles count plus its own contents,
\* and nothing of the other.
ThmC23 ==
    \A item \in HanSoloItems :
        /\ Loaded =>
               LET src == load_result.value.sources
                   want == EntriesNaming(file.list[1].contents, item)
                               \o EntriesNaming(file.list[2].contents, item)
               IN  /\ item \in DOMAIN src
                   /\ Len(src[item]) = Len(want)
                   /\ \A k \in DOMAIN src[item] :
                          /\ src[item][k].item.type = item.type
                          /\ src[item][k].count = want[k].count
        /\ (SinglesResolved \/ YasbDone) =>
               /\ printed = <<>>
               /\ item \in DOMAIN item_counts <=> Listed(item)
               /\ Listed(item) =>
                      item_counts[item] =
                          DeclaredHanSolo(item)
                              + (IF YasbDone
                                 THEN SumCounts(EntriesNaming(yasb_expansions[1].contents, item))
                                 ELSE 0)
        /\ InvDone =>
               /\ item \in DOMAIN inventory
               /\ inventory[item] =
                      collection.singles[item]
                          + collection.skus[SkuCore]
                              * SumCounts(EntriesNaming(inv_catalog.expansions[SkuCore].contents, item))
                          + collection.skus[SkuT70]
                              * SumCounts(EntriesNaming(inv_catalog.expansions[SkuT70].contents, item))

\* All three operations are over; the pilot and the upgrade differ in the
\* number of their sources, in their resolved counts and in their inventory
\* counts, and nothing was reported as a duplicate.
WitC23 ==
    /\ Loaded
    /\ YasbDone
    /\ InvDone
    /\ Len(load_result.value.sources[PilotHanSolo]) = 2
    /\ Len(load_result.value.sources[UpgradeHanSolo]) = 1
    /\ HanSoloItems \subseteq DOMAIN item_counts
    /\ item_counts[PilotHanSolo] = 3
    /\ item_counts[UpgradeHanSolo] = 2
    /\ printed = <<>>
    /\ collection.singles[PilotHanSolo] # collection.singles[UpgradeHanSolo]
    /\ inventory[PilotHanSolo] # inventory[UpgradeHanSolo]
-----------------------------------------------------------------------------
(* u32 at its full width *)

\* A number as nine base-256 digits, least significant first: room for the
\* exact product of two u32 values and for every sum formed from them.
WZero == <<0, 0, 0, 0, 0, 0, 0, 0, 0>>

\* The k low digits of n.
RECURSIVE Bytes(_, _)
Bytes(n, k) == IF k = 0 THEN <<>> ELSE <<n % 256>> \o Bytes(n \div 256, k - 1)

W(n) == Bytes(n, Len(WZero))

\* u32::MAX, 2^31 and 2^32.
U32Max == <<255, 255, 255, 255, 0, 0, 0, 0, 0>>

I32Sign == <<0, 0, 0, 128, 0, 0, 0, 0, 0>>

U32Modulus == <<0, 0, 0, 0, 1, 0, 0, 0, 0>>

\* The digits of a + b from position i on, with the carry that reached i.
RECURSIVE WAddFrom(_, _, _, _)
WAddFrom(a, b, i, carry) ==
    IF i > Len(a) THEN <<>>
    ELSE LET s == a[i] + b[i] + carry
         IN  <<s % 256>> \o WAddFrom(a, b, i + 1, s \div 256)

WAdd(a, b) == WAddFrom(a, b, 1, 0)

\* The digits of a * d for one digit d.
RECURSIVE WScaleFrom(_, _, _, _)
WScaleFrom(a, d, i, carry) ==
    IF i > Len(a) THEN <<>>
    ELSE LET s == a[i] * d + carry
         IN  <<s % 256>> \o WScaleFrom(a, d, i + 1, s \div 256)

\* a * 256^k
WShift(a, k) == [i \in DOMAIN a |-> IF i <= k THEN 0 ELSE a[i - k]]

RECURSIVE WMulFrom(_, _, _)
WMulFrom(a, b, i) ==
    IF i > Len(b) THEN WZero
    ELSE WAdd(WShift(WScaleFrom(a, b[i], 1, 0), i - 1), WMulFrom(a, b, i + 1))

WMul(a, b) == WMulFrom(a, b, 1)

\* The value is below 2^32.
Fits32(a) == \A i \in DOMAIN a : i > 4 => a[i] = 0

\* The value modulo 2^32.
Trunc32(a) == [i \in DOMAIN a |-> IF i > 4 THEN 0 ELSE a[i]]

\* What a u32 operation leaves for an exact result: the result when it fits;
\* otherwise a panic in a build with overflow checks (the dev profile) and
\* the result modulo 2^32 in a build without (the release profile).
U32Result(exact, checks) ==
    IF Fits32(exact) THEN [panic |-> FALSE, value |-> exact]
    ELSE IF checks THEN [panic |-> TRUE, value |-> WZero]
    ELSE [panic |-> FALSE, value |-> Trunc32(exact)]

\* `inventory.get(..).unwrap_or(&0) + c * item_count.count` on u32: the
\* product first, then the sum.
U32Total(had, c, count, checks) ==
    LET product == U32Result(WMul(c, count), checks)
    IN  IF product.panic THEN product
        ELSE U32Result(WAdd(had, product.value), checks)

\* `x as i32` for a u32 x, as the number plus - minus: the same bits read
\* as two's complement, so 2^32 less from 2^31 on.
AsI32(x) ==
    [plus |-> x, minus |-> IF x[4] >= 128 THEN U32Modulus ELSE WZero]

-----------------------------------------------------------------------------
(* Collection::inventory and generate_xls on u32 counts of any size *)

\* Expansions whose per-copy counts are small and large.
XlsExpansionCore ==
    Expansion(SkuCore, NameCore, 1,
              << ItemCount(ShipXWing, W(1)), ItemCount(PilotHanSolo, W(2)) >>)

XlsExpansionT70 ==
    Expansion(SkuT70, NameT70, 0,
              << ItemCount(ShipXWing, W(65536)), ItemCount(UpgradeHanSolo, W(1)) >>)

XlsCatalogs ==
    { CatalogOf(l) : l \in { <<>>, << XlsExpansionCore >>, << XlsExpansionT70 >>,
                             << XlsExpansionCore, XlsExpansionT70 >> } }

\* Counts of a collection: none, one, 2^16, 2^31 and the largest u32.
XlsSkuCounts == { WZero, W(1), W(65536), U32Max }

XlsSingleCounts == { W(1), I32Sign, U32Max }

XlsCollections ==
    { [skus |-> s, singles |-> g] :
        s \in MapsUpTo(CatalogSkus, XlsSkuCounts, Cardinality(CatalogSkus)),
        g \in MapsUpTo(SingleItems, XlsSingleCounts, 1) }

\* Card data that knows every item of the model, and card data that knows
\* none.
XlsDatas ==
    { Data(<< ShipCardFalcon, ShipCardXWing >>, << UpgradeCardHanSolo, UpgradeCardRey >>,
           << FactionRebel >>),
      Data(<<>>, <<>>, <<>>) }

XlsInit ==
    /\ LoadIdle
    /\ InvIdle
    /\ YasbIdle
    /\ XwsIdle
    /\ RecIdle
    /\ FrIdle
    /\ MainIdle
    /\ xls_catalog \in XlsCatalogs
    /\ xls_data \in XlsDatas
    /\ xls_collection \in XlsCollections
    /\ xls_only_owned \in BOOLEAN
    /\ xls_checks \in BOOLEAN
    /\ xls_inventory = <<>>
    /\ xls_expansions = <<>>
    /\ xls_sheets = <<>>
    /\ xls_pc = "call"

\* `for item_count in &expansion.contents` on u32 counts; st = [inventory,
\* panic].  A panic ends the loop.
RECURSIVE AddContentsU32(_, _, _, _)
AddContentsU32(st, c, contents, checks) ==
    IF contents = <<>> \/ st.panic THEN st
    ELSE LET item_count == Head(contents)
             total == U32Total(GetOr(st.inventory, item_count.item, WZero),
                               c, item_count.count, checks)
         IN  IF total.panic THEN [st EXCEPT !.panic = TRUE]
             ELSE AddContentsU32([st EXCEPT !.inventory =
                                      MapInsert(@, item_count.item, total.value)],
                                 c, Tail(contents), checks)

\* `for (sku, c) in &self.skus` over the skus in key order.
RECURSIVE InventoryU32(_, _, _, _, _)
InventoryU32(st, cat, skus, order, checks) ==
    IF order = <<>> \/ st.panic THEN st
    ELSE LET sku == Head(order)
             next == IF sku \in DOMAIN cat.expansions
                     THEN AddContentsU32(st, skus[sku], cat.expansions[sku].contents,
                                         checks)
                     ELSE st
         IN  InventoryU32(next, cat, skus, Tail(order), checks)

\* collection.inventory(&catalog)
XlsInventory ==
    /\ xls_pc = "call"
    /\ LET st == InventoryU32([inventory |-> xls_collection.singles, panic |-> FALSE],
                              xls_catalog, xls_collection.skus,
                              SortedKeys(DOMAIN xls_collection.skus), xls_checks)
       IN  IF st.panic
           THEN /\ xls_pc' = "panicked"
                /\ UNCHANGED xls_inventory
           ELSE /\ xls_pc' = "inventory"
                /\ xls_inventory' = st.inventory
    /\ UNCHANGED <<xls_catalog, xls_data, xls_collection, xls_only_owned, xls_checks,
                   xls_expansions, xls_sheets, load_vars, inv_vars, yasb_vars, xws_vars,
                   rec_vars, fr_vars, main_vars>>

\* The comparison add_expansion_sheet sorts by: wave, then sku.
ExpansionLess(a, b) ==
    \/ a.wave < b.wave
    \/ a.wave = b.wave /\ StrLess(a.sku, b.sku)

\* The rows of the expansion sheet for the expansions of S, in sorted order:
\* an expansion not owned is left out when only_owned is set.
RECURSIVE ExpansionRows(_, _, _)
ExpansionRows(S, skus, only_owned) ==
    IF S = {} THEN <<>>
    ELSE LET exp == CHOOSE x \in S : \A y \in S \ {x} : ExpansionLess(x, y)
             c == GetOr(skus, exp.sku, WZero)
             rest == ExpansionRows(S \ {exp}, skus, only_owned)
         IN  IF c = WZero /\ only_owned THEN rest
             ELSE << [owned |-> c, name |-> exp.name, wave |-> exp.wave,
                      sku |-> exp.sku] >> \o rest

\* The pc after add_table over the rows written: the answer of the
\* spreadsheet library to a table without a data row is not part of this
\* program, so both a returned error and a table are kept.
AfterTable(rows, next) == IF rows = <<>> THEN {next, "error"} ELSE {next}

\* add_expansion_sheet
XlsAddExpansionSheet ==
    /\ xls_pc = "inventory"
    /\ xls_expansions' = ExpansionRows(Range(xls_catalog.expansions),
                                       xls_collection.skus, xls_only_owned)
    /\ xls_pc' \in AfterTable(xls_expansions', "expansions")
    /\ UNCHANGED <<xls_catalog, xls_data, xls_collection, xls_only_owned, xls_checks,
                   xls_inventory, xls_sheets, load_vars, inv_vars, yasb_vars, xws_vars,
                   rec_vars, fr_vars, main_vars>>

\* total_func: the cell named first and one term, count times a lookup of
\* the sku, per source of the item.
total_func(item, singles_cell, cat) ==
    [cell |-> singles_cell,
     terms |-> IF item \in DOMAIN cat.sources
               THEN [i \in DOMAIN cat.sources[item] |->
                        [count |-> cat.sources[item][i].count,
                         sku |-> cat.sources[item][i].item.xws]]
               ELSE <<>>]

\* Whether the card data has the card a sheet of that type needs.
InData(data, item) ==
    IF item.type = "Ship" THEN get_ship_model(data, item.xws).some
    ELSE IF item.type = "Pilot" THEN get_pilot(data, item.xws).some
    ELSE get_upgrade(data, item.xws).some

\* The rows of an item sheet over the keys S of the inventory, from row number
\* row on: one per item of the sheet's type the card data knows, with the
\* formula in formula_col and the singles count, cast to i32, in singles_col.
RECURSIVE ItemRows(_, _, _, _, _, _, _, _)
ItemRows(S, typ, row, formula_col, singles_col, cat, data, singles) ==
    IF S = {} THEN <<>>
    ELSE LET item == FirstItem(S)
             rest == S \ {item}
         IN  IF item.type = typ /\ InData(data, item)
             THEN << [row |-> row, item |-> item,
                      cells |-> (formula_col :> total_func(item, <<row, singles_col>>, cat))
                                @@ (singles_col :> AsI32(GetOr(singles, item, WZero)))] >>
                  \o ItemRows(rest, typ, row + 1, formula_col, singles_col, cat, data,
                              singles)
             ELSE ItemRows(rest, typ, row, formula_col, singles_col, cat, data, singles)

\* add_ships_sheet: the formula in column 1, the singles in column 2.
XlsAddShipsSheet ==
    /\ xls_pc = "expansions"
    /\ LET rows == ItemRows(DOMAIN xls_inventory, "Ship", 1, 1, 2, xls_catalog,
                            xls_data, xls_collection.singles)
       IN  /\ xls_sheets' = ("Ships" :> rows)
           /\ xls_pc' \in AfterTable(rows, "ships")
    /\ UNCHANGED <<xls_catalog, xls_data, xls_collection, xls_only_owned, xls_checks,
                   xls_inventory, xls_expansions, load_vars, inv_vars, yasb_vars,
                   xws_vars, rec_vars, fr_vars, main_vars>>

\* add_pilots_sheet: the formula in column 3, the singles in column 4.
XlsAddPilotsSheet ==
    /\ xls_pc = "ships"
    /\ LET rows == ItemRows(DOMAIN xls_inventory, "Pilot", 1, 3, 4, xls_catalog,
                            xls_data, xls_collection.singles)
       IN  /\ xls_sheets' = xls_sheets @@ ("Pilots" :> rows)
           /\ xls_pc' \in AfterTable(rows, "pilots")
    /\ UNCHANGED <<xls_catalog, xls_data, xls_collection, xls_only_owned, xls_checks,
                   xls_inventory, xls_expansions, load_vars, inv_vars, yasb_vars,
                   xws_vars, rec_vars, fr_vars, main_vars>>

\* add_upgrades_sheet: the formula in column 2, the singles in column 3.
XlsAddUpgradesSheet ==
    /\ xls_pc = "pilots"
    /\ LET rows == ItemRows(DOMAIN xls_inventory, "Upgrade", 1, 2, 3, xls_catalog,
                            xls_data, xls_collection.singles)
       IN  /\ xls_sheets' = xls_sheets @@ ("Upgrades" :> rows)
           /\ xls_pc' \in AfterTable(rows, "upgrades")
    /\ UNCHANGED <<xls_catalog, xls_data, xls_collection, xls_only_owned, xls_checks,
                   xls_inventory, xls_expansions, load_vars, inv_vars, yasb_vars,
                   xws_vars, rec_vars, fr_vars, main_vars>>

\* workbook.save(..) and Ok(())
XlsSave ==
    /\ xls_pc = "upgrades"
    /\ xls_pc' = "saved"
    /\ UNCHANGED <<xls_catalog, xls_data, xls_collection, xls_only_owned, xls_checks,
                   xls_inventory, xls_expansions, xls_sheets, load_vars, inv_vars,
                   yasb_vars, xws_vars, rec_vars, fr_vars, main_vars>>

XlsNext ==
    \/ XlsInventory
    \/ XlsAddExpansionSheet
    \/ XlsAddShipsSheet
    \/ XlsAddPilotsSheet
    \/ XlsAddUpgradesSheet
    \/ XlsSave

\* Collection::inventory followed by generate_xls, for collections whose
\* counts reach the ends of u32, in both build profiles.
SpecXls == XlsInit /\ [][XlsNext]_vars

-----------------------------------------------------------------------------
(* What the spreadsheet program computes from the sheets *)

\* XLOOKUP(sku, ExpansionLookup[SKU], ExpansionLookup[Owned], 0, 0): the
\* Owned cell of the first row with that SKU, 0 when there is none.
XLOOKUP(sku, table) ==
    LET hit == FindFirst(table, { i \in DOMAIN table : table[i].sku = sku })
    IN  IF hit.some THEN hit.value.owned ELSE WZero

\* The value of the cell <<row, col>> of a sheet as plus - minus; an empty
\* cell counts as 0.
CellValue(sheet, cell) ==
    LET hit == FindFirst(sheet, { i \in DOMAIN sheet :
                                    /\ sheet[i].row = cell[1]
                                    /\ cell[2] \in DOMAIN sheet[i].cells
                                    /\ "plus" \in DOMAIN sheet[i].cells[cell[2]] })
    IN  IF hit.some THEN hit.value.cells[cell[2]]
        ELSE [plus |-> WZero, minus |-> WZero]

RECURSIVE TermsValue(_, _)
TermsValue(terms, table) ==
    IF terms = <<>> THEN WZero
    ELSE WAdd(WMul(Head(terms).count, XLOOKUP(Head(terms).sku, table)),
              TermsValue(Tail(terms), table))

\* The value of a formula of total_func on a sheet, as plus - minus.  Every
\* number of the model is below 2^53, where the spreadsheet's arithmetic is
\* exact.
FormulaValue(formula, sheet, table) ==
    LET cell == CellValue(sheet, formula.cell)
    IN  [plus |-> WAdd(cell.plus, TermsValue(formula.terms, table)),
         minus |-> cell.minus]

\* The exact count of an item: its singles plus, per owned sku, the sku's
\* count times every content count of the item.
RECURSIVE ExactContents(_, _, _)
ExactContents(contents, item, c) ==
    IF contents = <<>> THEN WZero
    ELSE WAdd(IF Head(contents).item = item THEN WMul(c, Head(contents).count) ELSE WZero,
              ExactContents(Tail(contents), item, c))

RECURSIVE ExactOwned(_, _, _, _)
ExactOwned(S, item, cat, skus) ==
    IF S = {} THEN WZero
    ELSE LET sku == CHOOSE x \in S : TRUE
         IN  WAdd(IF sku \in DOMAIN cat.expansions
                  THEN ExactContents(cat.expansions[sku].contents, item, skus[sku])
                  ELSE WZero,
                  ExactOwned(S \ {sku}, item, cat, skus))

ExactCount(item, coll, cat) ==
    WAdd(GetOr(coll.singles, item, WZero), ExactOwned(DOMAIN coll.skus, item, cat, coll.skus))

-----------------------------------------------------------------------------
(* Claims about counts at the ends of u32 *)

\* Collection::inventory has returned.
XlsInventoryDone == xls_pc \notin {"call", "panicked"}

\* C26: every value stored in the Inventory is the exact value
\* singles + sum(count * contentCount), never that value modulo 2^32.
CexC26 ==
    XlsInventoryDone =>
        \A item \in DOMAIN xls_inventory :
            xls_inventory[item] = ExactCount(item, xls_collection, xls_catalog)

\* The formula cells of a row.
FormulaCols(r) == { col \in DOMAIN r.cells : "terms" \in DOMAIN r.cells[col] }

\* C29: once the workbook is saved for a collection whose skus are all in
\* the catalog, the formula of every row evaluates to the inventory's count
\* of the row's item, with and without only_owned.
CexC29 ==
    (xls_pc = "saved" /\ DOMAIN xls_collection.skus \subseteq DOMAIN xls_catalog.expansions) =>
        \A name \in DOMAIN xls_sheets :
            \A i \in DOMAIN xls_sheets[name] :
                LET r == xls_sheets[name][i]
                IN  \A col \in FormulaCols(r) :
                        LET v == FormulaValue(r.cells[col], xls_sheets[name], xls_expansions)
                        IN  v.plus = WAdd(xls_inventory[r.item], v.minus)

-----------------------------------------------------------------------------
(* main *)

\* The expansion files a run may find: none that can be read, an empty list,
\* one and two expansions, and two expansions under one sku.
MainFiles ==
    { Unreadable,
      Readable(<<>>),
      Readable(<< Expansion(SkuCore, NameCore, 0, ContentsPair) >>),
      Readable(<< Expansion(SkuCore, NameCore, 0, ContentsPair),
                  Expansion(SkuT70, NameT70, 1, ContentsFour) >>),
      Readable(<< Expansion(SkuCore, NameCore, 0, ContentsPair),
                  Expansion(SkuCore, NameT70, 1, ContentsFour) >>) }

\* What Data::load_from_manifest may return: an error or card data.
MainManifests == { Err("Io", <<>>) } \cup { Ok(data) : data \in XlsDatas }

\* A loaded yasb2::Collection, as main uses it: what expansion_skus returns
\* (the sku counts and the names not found, or a panic while parsing a
\* count) and what singles_as_xws returns.
MainYasbCollections ==
    { [skus |-> s, missing |-> m, singles |-> g, panics |-> FALSE] :
        s \in MapsUpTo(OwnedSkus, {0, 2}, 2),
        m \in { <<>>, << NameLegacy >> },
        g \in MapsUpTo({ShipXWing, PilotRey}, {1}, 1) }
    \cup { [skus |-> <<>>, missing |-> <<>>, singles |-> <<>>, panics |-> TRUE] }

\* What yasb2::Collection::load may return.
MainYasbFiles == { Err("Io", <<>>) } \cup { Ok(c) : c \in MainYasbCollections }

\* The command lines: --help, --list-missing, neither.
MainArgs ==
    { [help |-> TRUE, list_missing |-> FALSE],
      [help |-> FALSE, list_missing |-> TRUE],
      [help |-> FALSE, list_missing |-> FALSE] }

\* No value yet.
Unset == [tag |-> "None"]

\* std::process::exit(code)
Exit(code) == [tag |-> "Exit", code |-> code]

\* The process ended by a panic.
Panicked == [tag |-> "Panic"]

MainInit ==
    /\ XlsIdle
    /\ InvIdle
    /\ YasbIdle
    /\ XwsIdle
    /\ RecIdle
    /\ FrIdle
    /\ file \in MainFiles
    /\ list = <<>>
    /\ catalog = EmptyCatalog
    /\ load_pc = "idle"
    /\ load_result = NoResult
    /\ main_args \in MainArgs
    /\ main_manifest \in MainManifests
    /\ main_yasb_file \in MainYasbFiles
    /\ main_fs \in {"ok", "create_fails", "write_fails"}
    /\ main_data = Unset
    /\ main_catalog = Unset
    /\ main_yasb_coll = Unset
    /\ main_skus = Unset
    /\ main_out = Unset
    /\ main_exit = Unset
    /\ main_pc = "args"

main_env == <<main_args, main_manifest, main_yasb_file, main_fs>>

\* parse_args: --help prints the help and exits with 0.
MainParseArgs ==
    /\ main_pc = "args"
    /\ IF main_args.help
       THEN /\ main_exit' = Exit(0)
            /\ main_pc' = "exit"
       ELSE /\ main_pc' = "data"
            /\ UNCHANGED main_exit
    /\ UNCHANGED <<main_env, main_data, main_catalog, main_yasb_coll, main_skus, main_out,
                   load_vars, inv_vars, yasb_vars, xws_vars, rec_vars, fr_vars, xls_vars>>

\* match Data::load_from_manifest(..) { Ok(d) => d, Err(e) => exit(1) }
MainLoadData ==
    /\ main_pc = "data"
    /\ IF main_manifest.tag = "Ok"
       THEN /\ main_data' = main_manifest.value
            /\ main_pc' = "catalog"
            /\ UNCHANGED main_exit
       ELSE /\ main_exit' = Exit(1)
            /\ main_pc' = "exit"
            /\ UNCHANGED main_data
    /\ UNCHANGED <<main_env, main_catalog, main_yasb_coll, main_skus, main_out,
                   load_vars, inv_vars, yasb_vars, xws_vars, rec_vars, fr_vars, xls_vars>>

\* Catalog::load() is entered.
MainCatalogCall ==
    /\ main_pc = "catalog"
    /\ load_pc' = "read"
    /\ main_pc' = "catalog_load"
    /\ UNCHANGED <<file, list, catalog, load_result, main_env, main_data, main_catalog,
                   main_yasb_coll, main_skus, main_out, main_exit,
                   inv_vars, yasb_vars, xws_vars, rec_vars, fr_vars, xls_vars>>

\* As MatchCatalog, but an error goes on with an empty catalog.
MatchCatalogOrEmpty(result) ==
    IF result.tag = "Ok"
    THEN [catalog |-> result.value, exit |-> Unset]
    ELSE [catalog |-> EmptyCatalog, exit |-> Unset]

\* match Catalog::load() { Ok(e) => e, Err(e) => exit(2) }
MatchCatalog(result) ==
    IF result.tag = "Ok"
    THEN [catalog |-> result.value, exit |-> Unset]
    ELSE [catalog |-> Unset, exit |-> Exit(2)]

\* Catalog::load() has returned.
MainCatalogMatch ==
    /\ main_pc = "catalog_load"
    /\ load_pc = "done"
    /\ LET m == MatchCatalog(load_result)
       IN  /\ main_catalog' = m.catalog
           /\ main_exit' = m.exit
           /\ main_pc' = IF m.exit = Unset THEN "yasb" ELSE "exit"
    /\ UNCHANGED <<main_env, main_data, main_yasb_coll, main_skus, main_out,
                   load_vars, inv_vars, yasb_vars, xws_vars, rec_vars, fr_vars, xls_vars>>

\* match yasb2::Collection::load(..) { Ok(c) => c, Err(e) => exit(1) }
MainLoadYasb ==
    /\ main_pc = "yasb"
    /\ IF main_yasb_file.tag = "Ok"
       THEN /\ main_yasb_coll' = main_yasb_file.value
            /\ main_pc' = "resolve"
            /\ UNCHANGED main_exit
       ELSE /\ main_exit' = Exit(1)
            /\ main_pc' = "exit"
            /\ UNCHANGED main_yasb_coll
    /\ UNCHANGED <<main_env, main_data, main_catalog, main_skus, main_out,
                   load_vars, inv_vars, yasb_vars, xws_vars, rec_vars, fr_vars, xls_vars>>

\* let (mut skus, missing) = yasb_coll.expansion_skus(&catalog); and the
\* names not found are printed.
MainResolve ==
    /\ main_pc = "resolve"
    /\ IF main_yasb_coll.panics
       THEN /\ main_exit' = Panicked
            /\ main_pc' = "exit"
            /\ UNCHANGED main_skus
       ELSE /\ main_skus' = main_yasb_coll.skus
            /\ main_pc' = "fill"
            /\ UNCHANGED main_exit
    /\ UNCHANGED <<main_env, main_data, main_catalog, main_yasb_coll, main_out,
                   load_vars, inv_vars, yasb_vars, xws_vars, rec_vars, fr_vars, xls_vars>>

\* As FillMissing, but every sku of the catalog is set to 0.
FillMissingOverwrite(skus, cat, list_missing) ==
    IF list_missing
    THEN [sku \in (DOMAIN skus) \cup (DOMAIN cat.expansions) |->
             IF sku \in DOMAIN cat.expansions THEN 0 ELSE skus[sku]]
    ELSE skus

\* if args.list_missing { for sku in catalog.expansions.keys() {
\*     if skus.get(sku).is_none() { skus.insert(sku.to_owned(), 0); } } }
FillMissing(skus, cat, list_missing) ==
    IF list_missing
    THEN [sku \in (DOMAIN skus) \cup (DOMAIN cat.expansions) |->
             IF sku \in DOMAIN skus THEN skus[sku] ELSE 0]
    ELSE skus

MainFill ==
    /\ main_pc = "fill"
    /\ main_skus' = FillMissing(main_skus, main_catalog, main_args.list_missing)
    /\ main_pc' = "collection"
    /\ UNCHANGED <<main_env, main_data, main_catalog, main_yasb_coll, main_out, main_exit,
                   load_vars, inv_vars, yasb_vars, xws_vars, rec_vars, fr_vars, xls_vars>>

\* let collection = Collection { skus, singles: yasb_coll.singles_as_xws() };
\* and collection.inventory(&catalog) is entered.
MainInventoryCall ==
    /\ main_pc = "collection"
    /\ collection' = [skus |-> main_skus, singles |-> main_yasb_coll.singles]
    /\ inv_catalog' = main_catalog
    /\ inv_pc' = "call"
    /\ main_pc' = "inventory"
    /\ UNCHANGED <<skus_iter, inventory, inv_missing, main_env, main_data, main_catalog,
                   main_yasb_coll, main_skus, main_out, main_exit,
                   load_vars, yasb_vars, xws_vars, rec_vars, fr_vars, xls_vars>>

\* collection.inventory(&catalog) has returned, its missing skus are printed
\* and assemble_records(&inventory, &data, &catalog) is entered.
MainAssembleCall ==
    /\ main_pc = "inventory"
    /\ inv_pc = "done"
    /\ rec_inventory' = inventory
    /\ rec_data' = main_data
    /\ rec_catalog' = main_catalog
    /\ rec_pc' = "call"
    /\ main_pc' = "assemble"
    /\ UNCHANGED <<rec_iter, records, rec_printed, main_env, main_data, main_catalog,
                   main_yasb_coll, main_skus, main_out, main_exit,
                   load_vars, inv_vars, yasb_vars, xws_vars, fr_vars, xls_vars>>

\* assemble_records has returned and the totals are printed;
\* File::create("inventory.json").unwrap() panics when the file cannot be
\* created; serde_json::to_writer writes the records, and its error is
\* printed.  main returns.
MainEmit ==
    /\ main_pc = "assemble"
    /\ rec_pc = "done"
    /\ IF main_fs = "create_fails"
       THEN /\ main_exit' = Panicked
            /\ UNCHANGED main_out
       ELSE /\ main_exit' = Exit(0)
            /\ main_out' = IF main_fs = "ok"
                           THEN [tag |-> "Written", records |-> records]
                           ELSE [tag |-> "Partial"]
    /\ main_pc' = "exit"
    /\ UNCHANGED <<main_env, main_data, main_catalog, main_yasb_coll, main_skus,
                   load_vars, inv_vars, yasb_vars, xws_vars, rec_vars, fr_vars, xls_vars>>

MainStep ==
    \/ MainParseArgs
    \/ MainLoadData
    \/ MainCatalogCall
    \/ MainCatalogMatch
    \/ MainLoadYasb
    \/ MainResolve
    \/ MainFill
    \/ MainInventoryCall
    \/ MainAssembleCall
    \/ MainEmit

MainNext == MainStep \/ LoadNext \/ InvNext \/ RecNext

\* One run of main for every command line, set of input files and outcome
\* of creating and writing the output file.
SpecMain == MainInit /\ [][MainNext]_vars

-----------------------------------------------------------------------------
(* Claims about main *)

\* The positions of main in program order.
MainOrder == <<"args", "data", "catalog", "catalog_load", "yasb", "resolve", "fill",
               "collection", "inventory", "assemble", "exit">>

StepRank(pc) == CHOOSE i \in DOMAIN MainOrder : MainOrder[i] = pc

\* No step after the three loads has left a trace.
NothingLater ==
    /\ main_skus = Unset
    /\ inv_pc = "idle"
    /\ rec_pc = "idle"
    /\ main_out = Unset

\* Stated negatively so that a run that goes on after a failed load is told
\* apart: the load of the card data, of the catalog, of the declaration failed.
DataFailed == ~ main_args.help /\ main_manifest.tag = "Err"

CatalogFailed == load_result.tag = "Err"

YasbFailed == main_catalog \notin {Unset} /\ main_yasb_file.tag = "Err"

\* C21: main moves only forward through load card data, load catalog, load
\* declaration, resolve, aggregate, assemble, emit, so each happens at most
\* once and in that order, and the callee of a step runs only during that
\* step; when one of the three loads fails the run goes straight to a
\* nonzero exit with no later step done and no output written; after the exit
\* nothing happens any more.
ThmC21 ==
    /\ [][/\ main_pc' # main_pc =>
                 \/ StepRank(main_pc') = StepRank(main_pc) + 1
                 \/ main_pc' = "exit"
          /\ main_pc # "exit"
          /\ load_vars' # load_vars => main_pc \in {"catalog", "catalog_load"}
          /\ inv_vars' # inv_vars => main_pc \in {"collection", "inventory"}
          /\ <<rec_pc, rec_iter, records, rec_printed>>' # <<rec_pc, rec_iter, records, rec_printed>>
                 => main_pc \in {"inventory", "assemble"}
          /\ main_data' # main_data => main_pc = "data"
          /\ main_catalog' # main_catalog => main_pc = "catalog_load"
          /\ main_yasb_coll' # main_yasb_coll => main_pc = "yasb"
          /\ main_skus' # main_skus => main_pc \in {"resolve", "fill"}
          /\ main_out' # main_out => main_pc = "assemble"]_vars
    /\ [](DataFailed =>
            /\ main_pc \in {"args", "data", "exit"}
            /\ load_pc = "idle" /\ main_catalog = Unset /\ main_yasb_coll = Unset
            /\ NothingLater
            /\ main_pc = "exit" => main_exit = Exit(1))
    /\ [](CatalogFailed =>
            /\ main_pc \in {"catalog_load", "exit"}
            /\ main_catalog = Unset /\ main_yasb_coll = Unset
            /\ NothingLater
            /\ main_pc = "exit" => main_exit = Exit(2))
    /\ [](YasbFailed =>
            /\ main_pc \in {"yasb", "exit"}
            /\ main_yasb_coll = Unset
            /\ NothingLater
            /\ main_pc = "exit" => main_exit = Exit(1))

\* A catalog file with a repeated sku ended the run with exit code 2.
WitC21 ==
    /\ main_pc = "exit"
    /\ load_result = Err("InvalidData", SkuCore)
    /\ main_exit = Exit(2)
    /\ main_out = Unset

\* The fill step is behind.
Filled == main_pc \in {"collection", "inventory", "assemble"} \/ (main_pc = "exit" /\ inv_pc = "done")

\* The skus of the catalog that supply the item.
SuppliersOf(item, cat) ==
    { sku \in DOMAIN cat.expansions :
        \E i \in DOMAIN cat.expansions[sku].contents :
            cat.expansions[sku].contents[i].item = item }

\* C24: with --list-missing, after the fill every sku of the catalog is a
\* key of the sku counts, a resolved sku has its resolved count and an added
\* one has 0, so the inventory has a key for every item of every catalog
\* expansion, 0 for an item whose suppliers are all unowned and that is no
\* single; without the flag the sku counts stay as resolved.
ThmC24 ==
    LET resolved == main_yasb_coll.skus
        cat == main_catalog
    IN  /\ (Filled /\ main_args.list_missing) =>
             /\ DOMAIN main_skus = (DOMAIN resolved) \cup (DOMAIN cat.expansions)
             /\ \A sku \in DOMAIN resolved : main_skus[sku] = resolved[sku]
             /\ \A sku \in (DOMAIN main_skus) \ (DOMAIN resolved) : main_skus[sku] = 0
        /\ (Filled /\ inv_pc = "done" /\ main_args.list_missing) =>
             \A sku \in DOMAIN cat.expansions :
                 \A i \in DOMAIN cat.expansions[sku].contents :
                     LET item == cat.expansions[sku].contents[i].item
                     IN  /\ item \in DOMAIN inventory
                         /\ (/\ item \notin DOMAIN main_yasb_coll.singles
                             /\ \A s \in SuppliersOf(item, cat) : GetOr(resolved, s, 0) = 0)
                            => inventory[item] = 0
        /\ (Filled /\ ~ main_args.list_missing) => main_skus = resolved

\* With the flag, an owned sku kept its count, an unowned one was added with
\* 0, and the inventory lists an item that only the unowned one supplies.
WitC24 ==
    /\ main_pc = "exit"
    /\ main_args.list_missing
    /\ main_out.tag = "Written"
    /\ SkuCore \in DOMAIN main_yasb_coll.skus /\ main_skus[SkuCore] = 2
    /\ SkuT70 \notin DOMAIN main_yasb_coll.skus
    /\ SkuT70 \in DOMAIN main_skus /\ main_skus[SkuT70] = 0
    /\ UpgradeRey \in DOMAIN inventory /\ inventory[UpgradeRey] = 0

=============================================================================
